---- MODULE Spec2Model ----
(***************************************************************************)
(* Model of the loan-decision engine: config.py (profile registry, global  *)
(* gate, risk aggregation), evaluation_module.py (segment rule tables and  *)
(* the conditional chain), logic.py (happy-path evaluation with document   *)
(* checklist) and main.py (the API module's own copy of the rule tables).  *)
(*                                                                         *)
(* Units.  DSCR values are scaled by 10000 (1.25 -> 12500, 1.349 -> 13490);*)
(* confidences by 100 (0.99 -> 99); overall risk and PG fractions by 10000;*)
(* PG fractions of the conditional chain are in percent.  Loan amounts are *)
(* whole pounds.  Arithmetic is exact; binary floating-point rounding is   *)
(* not modelled.                                                           *)
(*                                                                         *)
(* A returned value is a record with kind "dict" (a non-empty outcome),    *)
(* "empty" (the {} proceed result), "None" (a function that falls off its  *)
(* end) or "raise" (an exception, named in error).  keys is the set of     *)
(* keys the dict carries.  An explanation is [msg, nums, strs, appended]:  *)
(* the text of the f-string, the values formatted into it and the strings  *)
(* appended to it afterwards (+=).  Pound signs are left out of the texts. *)
(***************************************************************************)
EXTENDS Integers, Sequences, FiniteSets, TLC

VARIABLES pc, call, result,          \* the evaluation request in progress
          previous,                   \* the first of two calls with equal arguments
          required_documents,         \* the module-level REQUIRED_DOCUMENTS object
          decision_dict,              \* the dict object handed to finalize_conditional_pass
          lpc, loop_call,             \* generate_and_verify_narrative: position, call
          evaluation_decision,        \* the dict object passed to the narrative loop
          attempt, narrative,         \* locals of the narrative loop
          gpt_calls,                  \* the collaborator calls made so far
          loop_result                 \* what the narrative loop returned or raised

decision_vars == <<pc, call, result, previous, required_documents, decision_dict>>

narrative_vars == <<lpc, loop_call, evaluation_decision, attempt, narrative, gpt_calls, loop_result>>

vars == <<decision_vars, narrative_vars>>

----------------------------------------------------------------------------
(* Values returned by the Python functions *)

Expl(msg, nums, strs) == [msg |-> msg, nums |-> nums, strs |-> strs, appended |-> <<>>]

Lit(msg) == Expl(msg, <<>>, <<>>)

NoExpl == Lit("")

BaseKeys == {"decision", "confidence", "explanation"}

Dict(dec, conf, expl) ==
    [kind |-> "dict", decision |-> dec, confidence |-> conf, explanation |-> expl,
     keys |-> BaseKeys, overall_risk |-> 0, required_pg |-> 0,
     missing_documents |-> {}, error |-> "", value |-> 0]

EmptyDict ==
    [kind |-> "empty", decision |-> "", confidence |-> 0, explanation |-> NoExpl,
     keys |-> {}, overall_risk |-> 0, required_pg |-> 0,
     missing_documents |-> {}, error |-> "", value |-> 0]

NoneValue == [EmptyDict EXCEPT !.kind = "None"]

Raise(err) == [EmptyDict EXCEPT !.kind = "raise", !.error = err]

(* a float returned by a function *)
Float(v) == [EmptyDict EXCEPT !.kind = "float", !.value = v]

(* variant: "is not None" instead of truthiness *)
Truthy_is_not_None(d) == d.kind # "None"

(* Python truthiness of a dict: {} is falsy *)
Truthy(d) == d.kind = "dict"

----------------------------------------------------------------------------
(* config.py *)

config_DECISIONS ==
    [PROGRESS |-> "PROGRESS", FAIL |-> "FAIL", CONDITIONAL_PASS |-> "CONDITIONAL_PASS",
     FLAG_AI |-> "FLAG/AI", FLAG_UW |-> "FLAG/UW"]

SME_PROFILES ==
    [EB  |-> [confidence |-> 95,
              loan_unsecured |-> [min |-> 25000, max |-> 150000],
              loan_secured   |-> [min |-> 25000, max |-> 250000]],
     ESB |-> [confidence |-> 85,
              loan_unsecured |-> [min |-> 25000, max |-> 75000],
              loan_secured   |-> [min |-> 25000, max |-> 150000]],
     NTB |-> [confidence |-> 75,
              loan_unsecured |-> [min |-> 25000, max |-> 60000],
              loan_secured   |-> [min |-> 25000, max |-> 100000]],
     SU  |-> [confidence |-> 60,
              loan_unsecured |-> [min |-> 26000, max |-> 40000],
              loan_secured   |-> [min |-> 26000, max |-> 80000]]]

ACCEPTABLE_INDUSTRY_SECTORS ==
    {"Construction",
     "Professional, Scientific, and Technical Activities",
     "Wholesale and Retail Trade",
     "Other Service Activities",
     "Human Health and Social Work Activities",
     "Information and Communication",
     "Transportation and Storage",
     "Education",
     "Arts, Entertainment, and Recreation",
     "Manufacturing",
     "Accommodation and Food Service Activities",
     "Agriculture, Forestry, and Fishing",
     "Real Estate Activities",
     "Administrative and Support Service Activities",
     "Financial and Insurance Activities"}

FAILED_INDUSTRY_SECTORS ==
    {"Illicit or Illegal industries",
     "Places of Worship",
     "Places of Gambling",
     "Environmentally harmful industries",
     "Predatory financial services (e.g. payday lenders)"}

(* keys of INDUSTRY_RISK_SCORES; every value is 1.0 *)
INDUSTRY_RISK_SCORES ==
    {"Construction",
     "Professional, Scientific, and Technical Activities",
     "Wholesale and Retail Trade",
     "Other Service Activities",
     "Human Health and Social Work Activities",
     "Information and Communication",
     "Transportation and Storage",
     "Education",
     "Arts, Entertainment, and Recreation",
     "Manufacturing",
     "Accommodation and Food Service Activities",
     "Agriculture, Forestry and Fishing",
     "Real Estate Activities",
     "Administrative and Support Service Activities",
     "Financial and Insurance Activities"}

(* variant: Newly Trading scored as a Startup *)
SME_RISK_SCORES_ntb_as_startup == [EB |-> 10, ESB |-> 15, NTB |-> 25, SU |-> 25]

(* risk scores, scaled by 10 *)
SME_RISK_SCORES == [EB |-> 10, ESB |-> 15, NTB |-> 20, SU |-> 25]

DSCR_RISK_SCORES == [high |-> 10, medium |-> 15, low |-> 20]

CREDIT_RISK_SCORES == [T1 |-> 10, T2 |-> 15, T3 |-> 20]

(* dict.get(key, default) *)
Get(d, k, default) == IF k \in DOMAIN d THEN d[k] ELSE default

(* weights, in hundredths *)
WEIGHT_SME == 32

WEIGHT_DSCR == 32

WEIGHT_CREDIT == 32

WEIGHT_INDUSTRY == 4

(* overall risk scaled by 10000: hundredths of weight * tenths of score * 10 *)
calculate_overall_risk(sme_profile, dscr_level, credit_profile, industry_sector) ==
    LET sme_score      == Get(SME_RISK_SCORES, sme_profile, 20)
        dscr_score     == Get(DSCR_RISK_SCORES, dscr_level, 20)
        credit_score   == Get(CREDIT_RISK_SCORES, credit_profile, 20)
        industry_score == IF industry_sector \in INDUSTRY_RISK_SCORES THEN 10 ELSE 20
    IN  10 * (WEIGHT_SME * sme_score + WEIGHT_DSCR * dscr_score
              + WEIGHT_CREDIT * credit_score + WEIGHT_INDUSTRY * industry_score)

MIN_DSCR == 12500

MIN_LOAN_AMOUNT == 25001

(* max(a, b) and min(a, b) of Python *)
PyMax(a, b) == IF a >= b THEN a ELSE b

PyMin(a, b) == IF a <= b THEN a ELSE b

(* CONFIG["loan_adjustment_factor"] = 0.10, in hundredths *)
CONFIG == [loan_adjustment_factor |-> 10]

(* confidence adjustments, in hundredths *)
SME_CONFIDENCE_ADJUSTMENTS == [EB |-> 10, ESB |-> 0, NTB |-> -15]

RISK_CONFIDENCE_ADJUSTMENTS == [T1 |-> 10, T2 |-> 0, T3 |-> -15]

DSCR_CONFIDENCE_ADJUSTMENTS == [low |-> -15, medium |-> 0, high |-> 10]

(* the keys are those of INDUSTRY_RISK_SCORES; every value is 0.00 *)
INDUSTRY_CONFIDENCE_ADJUSTMENTS == [sector \in INDUSTRY_RISK_SCORES |-> 0]

(* config.py 189-204; confidences in hundredths.  The quotient
   (requested_loan - min_loan) / denominator * factor is computed as
   ((requested_loan - min_loan) * factor) \div denominator, exact for the
   requests the model draws *)
config_adjust_confidence(sme_profile, requested_loan, min_loan, max_loan, risk_profile, dscr_level, industry_sector) ==
    LET registered      == IF sme_profile \in DOMAIN SME_PROFILES THEN SME_PROFILES[sme_profile].confidence ELSE 75
        sme_adjust      == Get(SME_CONFIDENCE_ADJUSTMENTS, sme_profile, 0)
        base_confidence == registered + sme_adjust
        factor          == CONFIG["loan_adjustment_factor"]
        denominator     == IF max_loan # min_loan THEN max_loan - min_loan ELSE 1
        reduction       == ((requested_loan - min_loan) * factor) \div denominator
        loan_conf       == PyMax(base_confidence - reduction, 50)
        risk_conf       == loan_conf + Get(RISK_CONFIDENCE_ADJUSTMENTS, risk_profile, 0)
        final_conf      == risk_conf + Get(DSCR_CONFIDENCE_ADJUSTMENTS, dscr_level, 0)
        industry_adjust == Get(INDUSTRY_CONFIDENCE_ADJUSTMENTS, industry_sector, 0)
    IN  PyMax(PyMin(final_conf + industry_adjust, 100), 50)

(* variant: interpolation from a base of 0.10 *)
determine_pg_percentage_base_ten(overall_risk) ==
    LET min_risk == 10000
        max_risk == 20000
        base_pg  == 1000
        max_pg   == 10000
    IN  base_pg + ((overall_risk - min_risk) * (max_pg - base_pg)) \div (max_risk - min_risk)

(* PG fraction scaled by 10000; min_risk 1.0, max_risk 2.0, base 0.20, max 1.00 *)
determine_pg_percentage(overall_risk) ==
    LET min_risk == 10000
        max_risk == 20000
        base_pg  == 2000
        max_pg   == 10000
    IN  base_pg + ((overall_risk - min_risk) * (max_pg - base_pg)) \div (max_risk - min_risk)

(* variant: the segment check placed before the tier check *)
config_global_sme_checks_segment_first(dscr, loan_amount, risk_profile, sme_profile, industry_sector) ==
    IF dscr < MIN_DSCR
    THEN Dict(config_DECISIONS["FAIL"], 99, Expl("DSCR < {MIN_DSCR * 100:.0f}%. Loan declined.", <<MIN_DSCR \div 100>>, <<>>))
    ELSE IF loan_amount < MIN_LOAN_AMOUNT
    THEN Dict(config_DECISIONS["FAIL"], 99, Expl("Loan amount below {MIN_LOAN_AMOUNT}. Does not meet minimum threshold.", <<MIN_LOAN_AMOUNT>>, <<>>))
    ELSE IF sme_profile = "SU"
    THEN Dict(config_DECISIONS["FAIL"], 99, Lit("Startups are not considered for the Happy Path."))
    ELSE IF risk_profile = "T3"
    THEN Dict(config_DECISIONS["FAIL"], 99, Lit("T3 risk profiles do not meet the minimum credit profile threshold."))
    ELSE IF industry_sector \in FAILED_INDUSTRY_SECTORS
    THEN Dict(config_DECISIONS["FAIL"], 99, Expl("Industry sector '{industry_sector}' is not accepted.", <<>>, <<industry_sector>>))
    ELSE IF industry_sector \notin ACCEPTABLE_INDUSTRY_SECTORS
    THEN IF "FLAG/UW" \in DOMAIN config_DECISIONS
         THEN Dict(config_DECISIONS["FLAG/UW"], 99, Expl("Industry sector '{industry_sector}' is not recognized.", <<>>, <<industry_sector>>))
         ELSE Raise("KeyError")
    ELSE EmptyDict

(* variant: the tier check left out *)
config_global_sme_checks_no_tier(dscr, loan_amount, risk_profile, sme_profile, industry_sector) ==
    IF dscr < MIN_DSCR
    THEN Dict(config_DECISIONS["FAIL"], 99, Expl("DSCR < {MIN_DSCR * 100:.0f}%. Loan declined.", <<MIN_DSCR \div 100>>, <<>>))
    ELSE IF loan_amount < MIN_LOAN_AMOUNT
    THEN Dict(config_DECISIONS["FAIL"], 99, Expl("Loan amount below {MIN_LOAN_AMOUNT}. Does not meet minimum threshold.", <<MIN_LOAN_AMOUNT>>, <<>>))
    ELSE IF sme_profile = "SU"
    THEN Dict(config_DECISIONS["FAIL"], 99, Lit("Startups are not considered for the Happy Path."))
    ELSE IF industry_sector \in FAILED_INDUSTRY_SECTORS
    THEN Dict(config_DECISIONS["FAIL"], 99, Expl("Industry sector '{industry_sector}' is not accepted.", <<>>, <<industry_sector>>))
    ELSE IF industry_sector \notin ACCEPTABLE_INDUSTRY_SECTORS
    THEN IF "FLAG/UW" \in DOMAIN config_DECISIONS
         THEN Dict(config_DECISIONS["FLAG/UW"], 99, Expl("Industry sector '{industry_sector}' is not recognized.", <<>>, <<industry_sector>>))
         ELSE Raise("KeyError")
    ELSE EmptyDict

(* the five checks of the gate, in source order; an unrecognized sector looks up
   DECISIONS["FLAG/UW"], a key the table does not have (its key is FLAG_UW) *)
config_global_sme_checks(dscr, loan_amount, risk_profile, sme_profile, industry_sector) ==
    IF dscr < MIN_DSCR
    THEN Dict(config_DECISIONS["FAIL"], 99, Expl("DSCR < {MIN_DSCR * 100:.0f}%. Loan declined.", <<MIN_DSCR \div 100>>, <<>>))
    ELSE IF loan_amount < MIN_LOAN_AMOUNT
    THEN Dict(config_DECISIONS["FAIL"], 99, Expl("Loan amount below {MIN_LOAN_AMOUNT}. Does not meet minimum threshold.", <<MIN_LOAN_AMOUNT>>, <<>>))
    ELSE IF risk_profile = "T3"
    THEN Dict(config_DECISIONS["FAIL"], 99, Lit("T3 risk profiles do not meet the minimum credit profile threshold."))
    ELSE IF sme_profile = "SU"
    THEN Dict(config_DECISIONS["FAIL"], 99, Lit("Startups are not considered for the Happy Path."))
    ELSE IF industry_sector \in FAILED_INDUSTRY_SECTORS
    THEN Dict(config_DECISIONS["FAIL"], 99, Expl("Industry sector '{industry_sector}' is not accepted.", <<>>, <<industry_sector>>))
    ELSE IF industry_sector \notin ACCEPTABLE_INDUSTRY_SECTORS
    THEN IF "FLAG/UW" \in DOMAIN config_DECISIONS
         THEN Dict(config_DECISIONS["FLAG/UW"], 99, Expl("Industry sector '{industry_sector}' is not recognized.", <<>>, <<industry_sector>>))
         ELSE Raise("KeyError")
    ELSE EmptyDict

----------------------------------------------------------------------------
(* evaluation_module.py: gate and segment rule tables.  Each table is the
   source's chain of if-statements in source order; a nested if that does
   not return falls through to the statements after it. *)

(* str.lower() on the loan types the model uses *)
Lower(s) ==
    IF s = "Secured" THEN "secured"
    ELSE IF s = "Unsecured" THEN "unsecured"
    ELSE s

(* variant: the secured limits whatever the loan type *)
Limits_secured_only(segment, loan_type) == SME_PROFILES[segment].loan_secured

(* variant: the unsecured limits whatever the loan type *)
Limits_unsecured_only(segment, loan_type) == SME_PROFILES[segment].loan_unsecured

(* min_limit / max_limit selection shared by all segment evaluators; the
   SME_PROFILES table of evaluation_module.py equals the one of config.py *)
Limits(segment, loan_type) ==
    IF Lower(loan_type) = "secured"
    THEN SME_PROFILES[segment].loan_secured
    ELSE SME_PROFILES[segment].loan_unsecured

em_fallback_explanation ==
    Lit("Although the loan amount complies with the defined borrowing limits, the applicant's DSCR and risk indicators do not justify an automatic PASS. However, since the only issues relate to missing personal guarantees, debentures, ID verifications, or AML/KYC checks, the application is granted a CONDITIONAL_PASS subject to these additional conditions.")

(* int(min_pg_required * 100) for a PG fraction given in thousandths: truncation *)
PyInt(pg_fraction) == pg_fraction \div 10

(* evaluation_module.py 207-215; CONFIG and the two adjustment tables of
   evaluation_module.py (196, 204, 205) equal those of config.py *)
em_adjust_confidence(base_confidence, requested_loan, min_loan, max_loan, risk_profile, dscr_level) ==
    LET factor      == CONFIG["loan_adjustment_factor"]
        denominator == IF max_loan # min_loan THEN max_loan - min_loan ELSE 1
        reduction   == ((requested_loan - min_loan) * factor) \div denominator
        loan_conf   == PyMax(base_confidence - reduction, 50)
        risk_conf   == loan_conf + Get(RISK_CONFIDENCE_ADJUSTMENTS, risk_profile, 0)
        final_conf  == risk_conf + Get(DSCR_CONFIDENCE_ADJUSTMENTS, dscr_level, 0)
    IN  PyMax(PyMin(final_conf, 100), 50)

(* the DSCR predicates of the rules of evaluation_module.py, named after the
   comparison written in the if statement *)
InBand(band, dscr) ==
    CASE band = "dscr >= 1.50"         -> dscr >= 15000
      [] band = "dscr > 1.50"          -> dscr > 15000
      [] band = "1.349 < dscr <= 1.50" -> 13490 < dscr /\ dscr <= 15000
      [] band = "1.35 < dscr <= 1.50"  -> 13500 < dscr /\ dscr <= 15000
      [] band = "1.25 < dscr <= 1.35"  -> 12500 < dscr /\ dscr <= 13500
      [] band = "1.25 < dscr < 1.35"   -> 12500 < dscr /\ dscr < 13500
      [] band = "dscr > 1.25"          -> dscr > 12500
      [] band = "dscr > 1.35"          -> dscr > 13500
      [] band = "dscr < 1.35"          -> dscr < 13500

(* the DSCR predicates the rules of a segment evaluator of
   evaluation_module.py test for a tier: evaluate_eb_risk 289-372,
   evaluate_esb_risk 440-536, evaluate_ntb_risk 602-656, evaluate_SU_risk
   728-800 *)
em_dscr_bands(segment, risk_profile) ==
    CASE segment = "EB" /\ risk_profile = "T1" ->
            {"1.349 < dscr <= 1.50", "1.25 < dscr <= 1.35"}
      [] segment = "EB" /\ risk_profile \in {"T2", "T3"} ->
            {"dscr >= 1.50", "1.349 < dscr <= 1.50", "1.25 < dscr <= 1.35"}
      [] segment = "ESB" /\ risk_profile = "T1" ->
            {"dscr > 1.50", "1.35 < dscr <= 1.50", "1.25 < dscr <= 1.35"}
      [] segment = "ESB" /\ risk_profile = "T2" ->
            {"dscr > 1.50", "1.35 < dscr <= 1.50", "1.25 < dscr < 1.35"}
      [] segment = "ESB" /\ risk_profile = "T3" ->
            {"dscr > 1.50", "1.349 < dscr <= 1.50", "1.25 < dscr < 1.35"}
      [] segment = "NTB" /\ risk_profile = "T1" -> {"dscr > 1.25"}
      [] segment = "NTB" /\ risk_profile = "T2" -> {"dscr > 1.35"}
      [] segment = "NTB" /\ risk_profile = "T3" -> {"dscr > 1.35", "1.25 < dscr <= 1.35"}
      [] segment = "SU" /\ risk_profile = "T1" -> {"1.25 < dscr <= 1.35"}
      [] segment = "SU" /\ risk_profile \in {"T2", "T3"} -> {"dscr > 1.35", "dscr < 1.35"}
      [] OTHER -> {}

(* variant: confidence written as a whole percentage (99) instead of 0.99 *)
em_global_sme_checks_whole_percent(dscr, loan_amount) ==
    IF dscr < 12500
    THEN Dict("FAIL", 9900, Lit("DSCR <125%. Loan declined."))
    ELSE IF loan_amount < 25001
    THEN Dict("FAIL", 9900, Lit("Loan amount below 25,001. Does not meet minimum threshold."))
    ELSE EmptyDict

(* evaluation_module.py 239-244 *)
em_global_sme_checks(dscr, loan_amount) ==
    IF dscr < 12500
    THEN Dict("FAIL", 99, Lit("DSCR <125%. Loan declined."))
    ELSE IF loan_amount < 25001
    THEN Dict("FAIL", 99, Lit("Loan amount below 25,001. Does not meet minimum threshold."))
    ELSE EmptyDict

(* evaluation_module.py 249-393 *)
em_evaluate_eb_risk(sme_profile, risk_profile, dscr, loan_amount, loan_type) ==
    LET min_limit == Limits("EB", loan_type).min
        max_limit == Limits("EB", loan_type).max
    IN
    IF sme_profile # "EB"
    THEN Raise("EvaluationError")
    ELSE IF loan_amount < min_limit
    THEN Dict("FAIL", 99, Expl("Loan amount {loan_amount} is below the minimum allowed limit of {min_limit} for EB {loan_type} loans.", <<loan_amount, min_limit>>, <<loan_type>>))
    ELSE IF loan_amount > max_limit
    THEN Dict("FAIL", 99, Expl("Loan amount {loan_amount} exceeds the maximum allowed limit of {max_limit} for EB {loan_type} loans.", <<loan_amount, max_limit>>, <<loan_type>>))
    ELSE IF (risk_profile = "T2" /\ dscr >= 15000) /\ (loan_type = "unsecured" /\ loan_amount <= 150000)
    THEN Dict("PASS", 87, Lit("EB/T2 with DSCR >150% qualifies for an unsecured loan."))
    ELSE IF (risk_profile = "T2" /\ dscr >= 15000) /\ (loan_type = "secured" /\ loan_amount <= 250000)
    THEN Dict("PASS", 89, Lit("EB/T2 with DSCR >150% qualifies for a secured loan."))
    ELSE IF (risk_profile = "T3" /\ dscr >= 15000) /\ (loan_type = "unsecured" /\ loan_amount <= 100000)
    THEN Dict("FLAG/AI", 75, Lit("EB/T3 with DSCR >150% (unsecured): AI review required."))
    ELSE IF (risk_profile = "T3" /\ dscr >= 15000) /\ (loan_type = "secured" /\ loan_amount <= 250000)
    THEN Dict("FLAG/AI", 78, Lit("EB/T3 with DSCR >150% (secured): AI review required."))
    ELSE IF (risk_profile = "T1" /\ 13490 < dscr /\ dscr <= 15000) /\ (loan_type = "unsecured" /\ loan_amount <= 150000)
    THEN Dict("PASS", 85, Lit("EB/T1 with DSCR just below 150% qualifies for an unsecured loan."))
    ELSE IF (risk_profile = "T1" /\ 13490 < dscr /\ dscr <= 15000) /\ (loan_type = "secured" /\ loan_amount <= 250000)
    THEN Dict("PASS", 88, Lit("EB/T1 with DSCR just below 150% qualifies for a secured loan."))
    ELSE IF 13490 < dscr /\ dscr <= 15000 /\ risk_profile = "T2" /\ (loan_type = "unsecured" /\ loan_amount <= 100000)
    THEN Dict("PASS", 80, Lit("EB/T2 with DSCR just below 150% qualifies for an unsecured loan."))
    ELSE IF 13490 < dscr /\ dscr <= 15000 /\ risk_profile = "T2" /\ (loan_type = "secured" /\ loan_amount <= 250000)
    THEN Dict("PASS", 83, Lit("EB/T2 with DSCR just below 150% qualifies for a secured loan."))
    ELSE IF 13490 < dscr /\ dscr <= 15000 /\ risk_profile = "T3" /\ (loan_type = "unsecured" /\ loan_amount <= 75000)
    THEN Dict("FLAG/UW", 70, Lit("EB/T3 with DSCR just below 150%: underwriter review required (unsecured)."))
    ELSE IF 13490 < dscr /\ dscr <= 15000 /\ risk_profile = "T3" /\ (loan_type = "secured" /\ loan_amount <= 250000)
    THEN Dict("FLAG/UW", 72, Lit("EB/T3 with DSCR just below 150%: underwriter review required (secured)."))
    ELSE IF 12500 < dscr /\ dscr <= 13500 /\ risk_profile = "T1" /\ (loan_type = "unsecured" /\ loan_amount <= 100000)
    THEN Dict("PASS", 78, Lit("EB/T1 with DSCR between 125%-135% qualifies for an unsecured loan."))
    ELSE IF 12500 < dscr /\ dscr <= 13500 /\ risk_profile = "T1" /\ (loan_type = "secured" /\ loan_amount <= 250000)
    THEN Dict("PASS", 82, Lit("EB/T1 with DSCR between 125%-135% qualifies for a secured loan."))
    ELSE IF 12500 < dscr /\ dscr <= 13500 /\ risk_profile = "T2" /\ (loan_type = "unsecured" /\ loan_amount <= 75000)
    THEN Dict("PASS", 75, Lit("EB/T2 with DSCR between 125%-135% qualifies for an unsecured loan."))
    ELSE IF 12500 < dscr /\ dscr <= 13500 /\ risk_profile = "T2" /\ (loan_type = "secured" /\ loan_amount <= 250000)
    THEN Dict("PASS", 79, Lit("EB/T2 with DSCR between 125%-135% qualifies for a secured loan."))
    ELSE IF 12500 < dscr /\ dscr <= 13500 /\ risk_profile = "T3" /\ (loan_type = "unsecured" /\ loan_amount <= 50000)
    THEN Dict("FLAG/AI", 65, Lit("EB/T3 with DSCR between 125%-135%: AI review required (unsecured)."))
    ELSE IF 12500 < dscr /\ dscr <= 13500 /\ risk_profile = "T3" /\ (loan_type = "secured" /\ loan_amount <= 250000)
    THEN Dict("FLAG/UW", 70, Lit("EB/T3 with DSCR between 125%-135%: underwriter review required (secured)."))
    ELSE Dict("CONDITIONAL_PASS", 99, em_fallback_explanation)

(* evaluation_module.py 398-557 *)
em_evaluate_esb_risk(sme_profile, risk_profile, dscr, loan_amount, loan_type) ==
    LET min_limit == Limits("ESB", loan_type).min
        max_limit == Limits("ESB", loan_type).max
    IN
    IF sme_profile # "ESB"
    THEN Raise("EvaluationError")
    ELSE IF loan_amount < min_limit
    THEN Dict("FAIL", 99, Expl("Loan amount {loan_amount} is below the minimum allowed limit of {min_limit} for ESB {loan_type} loans.", <<loan_amount, min_limit>>, <<loan_type>>))
    ELSE IF loan_amount > max_limit
    THEN Dict("FAIL", 99, Expl("Loan amount {loan_amount} exceeds the maximum allowed limit of {max_limit} for ESB {loan_type} loans.", <<loan_amount, max_limit>>, <<loan_type>>))
    ELSE IF (risk_profile = "T1" /\ dscr > 15000) /\ (loan_type = "unsecured" /\ loan_amount <= 80000)
    THEN Dict("PASS", 88, Lit("ESB/T1 with DSCR >150% qualifies for an unsecured loan."))
    ELSE IF (risk_profile = "T1" /\ dscr > 15000) /\ (loan_type = "secured" /\ loan_amount <= 150000)
    THEN Dict("PASS", 90, Lit("ESB/T1 with DSCR >150% qualifies for a secured loan."))
    ELSE IF (risk_profile = "T2" /\ dscr > 15000) /\ (loan_type = "unsecured" /\ loan_amount <= 75000)
    THEN Dict("PASS", 85, Lit("ESB/T2 with DSCR >150% qualifies for an unsecured loan."))
    ELSE IF (risk_profile = "T2" /\ dscr > 15000) /\ (loan_type = "secured" /\ loan_amount <= 150000)
    THEN Dict("PASS", 87, Lit("ESB/T2 with DSCR >150% qualifies for a secured loan."))
    ELSE IF (risk_profile = "T3" /\ dscr > 15000) /\ (loan_type = "unsecured" /\ loan_amount <= 60000)
    THEN Dict("FLAG/AI", 70, Lit("ESB/T3 with DSCR >150% (unsecured): AI review required."))
    ELSE IF (risk_profile = "T3" /\ dscr > 15000) /\ (loan_type = "secured" /\ loan_amount <= 150000)
    THEN Dict("FLAG/UW", 72, Lit("ESB/T3 with DSCR >150% (secured): underwriter review required."))
    ELSE IF (risk_profile = "T1" /\ 13500 < dscr /\ dscr <= 15000) /\ (loan_type = "unsecured" /\ loan_amount <= 80000)
    THEN Dict("PASS", 85, Lit("ESB/T1 with DSCR between 135%-150% qualifies for an unsecured loan."))
    ELSE IF (risk_profile = "T1" /\ 13500 < dscr /\ dscr <= 15000) /\ (loan_type = "secured" /\ loan_amount <= 150000)
    THEN Dict("PASS", 87, Lit("ESB/T1 with DSCR between 135%-150% qualifies for a secured loan."))
    ELSE IF (risk_profile = "T2" /\ 13500 < dscr /\ dscr <= 15000) /\ (loan_type = "unsecured" /\ loan_amount <= 75000)
    THEN Dict("PASS", 82, Lit("ESB/T2 with DSCR between 135%-150% qualifies for an unsecured loan."))
    ELSE IF (risk_profile = "T2" /\ 13500 < dscr /\ dscr <= 15000) /\ (loan_type = "secured" /\ loan_amount <= 150000)
    THEN Dict("PASS", 85, Lit("ESB/T2 with DSCR between 135%-150% qualifies for a secured loan."))
    ELSE IF (risk_profile = "T3" /\ 13490 < dscr /\ dscr <= 15000) /\ (loan_type = "unsecured" /\ loan_amount <= 50000)
    THEN Dict("FLAG/AI", 70, Lit("ESB/T3 with DSCR between 135%-150%: AI review required (unsecured)."))
    ELSE IF (risk_profile = "T3" /\ 13490 < dscr /\ dscr <= 15000) /\ (loan_type = "secured" /\ loan_amount <= 150000)
    THEN Dict("FLAG/UW", 72, Lit("ESB/T3 with DSCR between 135%-150%: underwriter review required (secured)."))
    ELSE IF (risk_profile = "T1" /\ 12500 < dscr /\ dscr <= 13500) /\ (loan_type = "unsecured" /\ loan_amount <= 60000)
    THEN Dict("PASS", 80, Lit("ESB/T1 with DSCR between 125%-135% qualifies for an unsecured loan."))
    ELSE IF (risk_profile = "T1" /\ 12500 < dscr /\ dscr <= 13500) /\ (loan_type = "secured" /\ loan_amount <= 150000)
    THEN Dict("PASS", 83, Lit("ESB/T1 with DSCR between 125%-135% qualifies for a secured loan."))
    ELSE IF (risk_profile = "T2" /\ 12500 < dscr /\ dscr < 13500) /\ (loan_type = "unsecured" /\ loan_amount <= 50000)
    THEN Dict("PASS", 75, Lit("ESB/T2 with DSCR >125% and <135% qualifies for a unsecured loan."))
    ELSE IF (risk_profile = "T2" /\ 12500 < dscr /\ dscr < 13500) /\ (loan_type = "secured" /\ loan_amount <= 150000)
    THEN Dict("PASS", 78, Lit("ESB/T2 with DSCR >125% and <135% qualifies for a secured loan."))
    ELSE IF (risk_profile = "T3" /\ 12500 < dscr /\ dscr < 13500) /\ (loan_type = "unsecured" /\ loan_amount <= 40000)
    THEN Dict("FLAG/AI", 70, Lit("ESB/T3 with DSCR >125% and <135%: AI review required (unsecured)."))
    ELSE IF (risk_profile = "T3" /\ 12500 < dscr /\ dscr < 13500) /\ (loan_type = "secured" /\ loan_amount <= 150000)
    THEN Dict("FLAG/UW", 72, Lit("ESB/T3 with DSCR >125% and <135%: underwriter review required (secured)."))
    ELSE Dict("CONDITIONAL_PASS", 99, em_fallback_explanation)

(* evaluation_module.py 562-683 *)
em_evaluate_ntb_risk(sme_profile, risk_profile, dscr, loan_amount, loan_type) ==
    LET min_limit == Limits("NTB", loan_type).min
        max_limit == Limits("NTB", loan_type).max
    IN
    IF sme_profile # "NTB"
    THEN Raise("EvaluationError")
    ELSE IF loan_amount < min_limit
    THEN Dict("FAIL", 99, Expl("Loan amount {loan_amount} is below the minimum allowed limit of {min_limit} for NTB {loan_type} loans.", <<loan_amount, min_limit>>, <<loan_type>>))
    ELSE IF loan_amount > max_limit
    THEN Dict("FAIL", 99, Expl("Loan amount {loan_amount} exceeds the maximum allowed limit of {max_limit} for NTB {loan_type} loans.", <<loan_amount, max_limit>>, <<loan_type>>))
    ELSE IF (risk_profile = "T1" /\ dscr > 12500) /\ (loan_type = "unsecured" /\ loan_amount <= 60000)
    THEN Dict("PASS", 80, Lit("NTB/T1 with DSCR >125% qualifies for an unsecured loan."))
    ELSE IF (risk_profile = "T1" /\ dscr > 12500) /\ (loan_type = "secured" /\ dscr > 15000 /\ loan_amount <= 100000)
    THEN Dict("PASS", 85, Lit("NTB/T1 with DSCR >150% qualifies for a secured loan."))
    ELSE IF (risk_profile = "T2" /\ dscr > 13500) /\ (loan_type = "unsecured" /\ loan_amount <= 60000)
    THEN Dict("PASS", 78, Lit("NTB/T2 with DSCR >135% qualifies for an unsecured loan."))
    ELSE IF (risk_profile = "T2" /\ dscr > 13500) /\ (loan_type = "secured" /\ dscr > 15000 /\ loan_amount <= 100000)
    THEN Dict("PASS", 80, Lit("NTB/T2 with DSCR >150% qualifies for a secured loan."))
    ELSE IF (risk_profile = "T3" /\ dscr > 13500) /\ (loan_type = "unsecured" /\ loan_amount <= 60000)
    THEN Dict("FLAG/AI", 70, Lit("NTB/T3 with DSCR >135%: AI review required (unsecured)."))
    ELSE IF (risk_profile = "T3" /\ dscr > 13500) /\ (loan_type = "secured" /\ dscr > 12500 /\ loan_amount <= 150000)
    THEN Dict("FLAG/UW", 72, Lit("NTB/T3 with DSCR >125%: underwriter review required (secured)."))
    ELSE IF (risk_profile = "T3" /\ 12500 < dscr /\ dscr <= 13500) /\ (loan_type = "unsecured" /\ loan_amount <= 40000)
    THEN Dict("FLAG/AI", 70, Lit("NTB/T3 with DSCR between 125%-135%: AI review required (unsecured)."))
    ELSE IF (risk_profile = "T3" /\ 12500 < dscr /\ dscr <= 13500) /\ (loan_type = "secured" /\ loan_amount <= 150000)
    THEN Dict("FLAG/UW", 72, Lit("NTB/T3 with DSCR between 125%-135%: underwriter review required (secured)."))
    ELSE Dict("CONDITIONAL_PASS", 99, em_fallback_explanation)

(* evaluation_module.py 688-827 *)
em_evaluate_SU_risk(sme_profile, risk_profile, dscr, loan_amount, loan_type) ==
    LET min_limit == Limits("SU", loan_type).min
        max_limit == Limits("SU", loan_type).max
    IN
    IF sme_profile # "SU"
    THEN Raise("EvaluationError")
    ELSE IF loan_amount < min_limit
    THEN Dict("FAIL", 99, Expl("Loan amount {loan_amount} is below the minimum allowed limit of {min_limit} for SU {loan_type} loans.", <<loan_amount, min_limit>>, <<loan_type>>))
    ELSE IF loan_amount > max_limit
    THEN Dict("FAIL", 99, Expl("Loan amount {loan_amount} exceeds the maximum allowed limit of {max_limit} for SU {loan_type} loans.", <<loan_amount, max_limit>>, <<loan_type>>))
    ELSE IF (risk_profile = "T2" /\ dscr > 13500) /\ (loan_type = "unsecured" /\ loan_amount <= 40000)
    THEN Dict("FLAG/AI", 72, Lit("SU/T2 with DSCR >135%: AI review required (unsecured)."))
    ELSE IF (risk_profile = "T2" /\ dscr > 13500) /\ (loan_type = "secured" /\ loan_amount <= 80000)
    THEN Dict("FLAG/AI", 75, Lit("SU/T2 with DSCR >135%: AI review required (secured)."))
    ELSE IF (risk_profile = "T3" /\ dscr > 13500) /\ (loan_type = "unsecured" /\ loan_amount <= 40000)
    THEN Dict("FLAG/UW", 70, Lit("SU/T3 with DSCR >135%: underwriter review required (unsecured)."))
    ELSE IF (risk_profile = "T3" /\ dscr > 13500) /\ (loan_type = "secured" /\ loan_amount <= 80000)
    THEN Dict("FLAG/UW", 73, Lit("SU/T3 with DSCR >135%: underwriter review required (secured)."))
    ELSE IF (risk_profile = "T1" /\ 12500 < dscr /\ dscr <= 13500) /\ (loan_type = "unsecured" /\ loan_amount <= 40000)
    THEN Dict("FLAG/AI", 70, Lit("SU/T1 with DSCR between 125%-135%: AI review required (unsecured)."))
    ELSE IF (risk_profile = "T1" /\ 12500 < dscr /\ dscr <= 13500) /\ (loan_type = "secured" /\ loan_amount <= 80000)
    THEN Dict("FLAG/AI", 73, Lit("SU/T1 with DSCR between 125%-135%: AI review required (secured)."))
    ELSE IF (risk_profile = "T2" /\ dscr < 13500) /\ (loan_type = "unsecured" /\ loan_amount <= 40000)
    THEN Dict("FAIL", 99, Lit("SU/T2 with DSCR <135% (unsecured): Loan declined."))
    ELSE IF (risk_profile = "T2" /\ dscr < 13500) /\ (loan_type = "secured" /\ loan_amount <= 80000)
    THEN Dict("FAIL", 99, Lit("SU/T2 with DSCR <135% (secured): Loan declined."))
    ELSE IF (risk_profile = "T3" /\ dscr < 13500) /\ (loan_type = "unsecured" /\ loan_amount <= 26000)
    THEN Dict("FAIL", 99, Lit("SU/T3 with DSCR <135% (unsecured): Loan declined."))
    ELSE IF (risk_profile = "T3" /\ dscr < 13500) /\ (loan_type = "secured" /\ loan_amount <= 80000)
    THEN Dict("FAIL", 99, Lit("SU/T3 with DSCR <135% (secured): Loan declined."))
    ELSE Dict("CONDITIONAL_PASS", 99, em_fallback_explanation)

(* the evaluator of evaluation_module.py written for segment *)
em_segment_evaluator_by_profile(segment, sme_profile, risk_profile, dscr, loan_amount, loan_type) ==
    CASE sme_profile = "EB"  -> em_evaluate_eb_risk(sme_profile, risk_profile, dscr, loan_amount, loan_type)
      [] sme_profile = "ESB" -> em_evaluate_esb_risk(sme_profile, risk_profile, dscr, loan_amount, loan_type)
      [] sme_profile = "NTB" -> em_evaluate_ntb_risk(sme_profile, risk_profile, dscr, loan_amount, loan_type)
      [] sme_profile = "SU"  -> em_evaluate_SU_risk(sme_profile, risk_profile, dscr, loan_amount, loan_type)
      [] OTHER -> Raise("EvaluationError")

(* the evaluator of evaluation_module.py written for segment *)
em_segment_evaluator(segment, sme_profile, risk_profile, dscr, loan_amount, loan_type) ==
    CASE segment = "EB"  -> em_evaluate_eb_risk(sme_profile, risk_profile, dscr, loan_amount, loan_type)
      [] segment = "ESB" -> em_evaluate_esb_risk(sme_profile, risk_profile, dscr, loan_amount, loan_type)
      [] segment = "NTB" -> em_evaluate_ntb_risk(sme_profile, risk_profile, dscr, loan_amount, loan_type)
      [] segment = "SU"  -> em_evaluate_SU_risk(sme_profile, risk_profile, dscr, loan_amount, loan_type)

(* variant: the legal-charge check placed before the debenture check *)
em_evaluate_sme_risk_legal_charge_first(sme_profile, risk_profile, dscr, loan_amount, loan_type, provided_pg, min_pg_required, requires_debenture, has_debenture, has_legal_charge, is_due_diligence_complete, is_business_registered) ==
    LET global_result == em_global_sme_checks(dscr, loan_amount)
    IN
    IF Truthy(global_result)
    THEN global_result
    ELSE IF (sme_profile \in {"SU", "NTB", "ESB"} /\ provided_pg < min_pg_required)
    THEN Dict("CONDITIONAL_PASS", 99, Expl("Loan approved on condition that a minimum {int(min_pg_required * 100)}% Personal Guarantee (PG) is signed before funding.", <<PyInt(min_pg_required)>>, <<>>))
    ELSE IF (loan_type = "secured" /\ ~has_legal_charge)
    THEN Dict("CONDITIONAL_PASS", 99, Lit("Loan approved on condition that the lender obtains a Legal Charge (First or Second) over the security before funding."))
    ELSE IF (sme_profile \in {"NTB", "ESB", "EB"} /\ requires_debenture /\ ~has_debenture)
    THEN Dict("CONDITIONAL_PASS", 99, Lit("Loan approved on condition that a Debenture is signed before funding."))
    ELSE IF ~is_due_diligence_complete
    THEN Dict("CONDITIONAL_PASS", 99, Lit("Loan approved on condition that all AML/KYC and Due Diligence checks are successfully completed before funding."))
    ELSE IF ~is_business_registered
    THEN Dict("CONDITIONAL_PASS", 99, Lit("Loan approved on condition that borrower provides proof of business registration before funding."))
    ELSE IF sme_profile = "EB"
    THEN em_evaluate_eb_risk(sme_profile, risk_profile, dscr, loan_amount, loan_type)
    ELSE IF sme_profile = "ESB"
    THEN em_evaluate_esb_risk(sme_profile, risk_profile, dscr, loan_amount, loan_type)
    ELSE IF sme_profile = "NTB"
    THEN em_evaluate_ntb_risk(sme_profile, risk_profile, dscr, loan_amount, loan_type)
    ELSE IF sme_profile = "SU"
    THEN em_evaluate_SU_risk(sme_profile, risk_profile, dscr, loan_amount, loan_type)
    ELSE Dict("FAIL", 99, Lit("Invalid SME profile."))

(* variant: the segment's maximum checked before the supplementary conditions *)
em_evaluate_sme_risk_limits_first(sme_profile, risk_profile, dscr, loan_amount, loan_type, provided_pg, min_pg_required, requires_debenture, has_debenture, has_legal_charge, is_due_diligence_complete, is_business_registered) ==
    LET global_result == em_global_sme_checks(dscr, loan_amount)
    IN
    IF Truthy(global_result)
    THEN global_result
    ELSE IF sme_profile \in DOMAIN SME_PROFILES /\ loan_amount > Limits(sme_profile, loan_type).max
    THEN em_segment_evaluator(sme_profile, sme_profile, risk_profile, dscr, loan_amount, loan_type)
    ELSE IF (sme_profile \in {"SU", "NTB", "ESB"} /\ provided_pg < min_pg_required)
    THEN Dict("CONDITIONAL_PASS", 99, Expl("Loan approved on condition that a minimum {int(min_pg_required * 100)}% Personal Guarantee (PG) is signed before funding.", <<PyInt(min_pg_required)>>, <<>>))
    ELSE IF (sme_profile \in {"NTB", "ESB", "EB"} /\ requires_debenture /\ ~has_debenture)
    THEN Dict("CONDITIONAL_PASS", 99, Lit("Loan approved on condition that a Debenture is signed before funding."))
    ELSE IF (loan_type = "secured" /\ ~has_legal_charge)
    THEN Dict("CONDITIONAL_PASS", 99, Lit("Loan approved on condition that the lender obtains a Legal Charge (First or Second) over the security before funding."))
    ELSE IF ~is_due_diligence_complete
    THEN Dict("CONDITIONAL_PASS", 99, Lit("Loan approved on condition that all AML/KYC and Due Diligence checks are successfully completed before funding."))
    ELSE IF ~is_business_registered
    THEN Dict("CONDITIONAL_PASS", 99, Lit("Loan approved on condition that borrower provides proof of business registration before funding."))
    ELSE IF sme_profile = "EB"
    THEN em_evaluate_eb_risk(sme_profile, risk_profile, dscr, loan_amount, loan_type)
    ELSE IF sme_profile = "ESB"
    THEN em_evaluate_esb_risk(sme_profile, risk_profile, dscr, loan_amount, loan_type)
    ELSE IF sme_profile = "NTB"
    THEN em_evaluate_ntb_risk(sme_profile, risk_profile, dscr, loan_amount, loan_type)
    ELSE IF sme_profile = "SU"
    THEN em_evaluate_SU_risk(sme_profile, risk_profile, dscr, loan_amount, loan_type)
    ELSE Dict("FAIL", 99, Lit("Invalid SME profile."))

(* evaluation_module.py 829-905 *)
em_evaluate_sme_risk(sme_profile, risk_profile, dscr, loan_amount, loan_type, provided_pg, min_pg_required, requires_debenture, has_debenture, has_legal_charge, is_due_diligence_complete, is_business_registered) ==
    LET global_result == em_global_sme_checks(dscr, loan_amount)
    IN
    IF Truthy(global_result)
    THEN global_result
    ELSE IF (sme_profile \in {"SU", "NTB", "ESB"} /\ provided_pg < min_pg_required)
    THEN Dict("CONDITIONAL_PASS", 99, Expl("Loan approved on condition that a minimum {int(min_pg_required * 100)}% Personal Guarantee (PG) is signed before funding.", <<PyInt(min_pg_required)>>, <<>>))
    ELSE IF (sme_profile \in {"NTB", "ESB", "EB"} /\ requires_debenture /\ ~has_debenture)
    THEN Dict("CONDITIONAL_PASS", 99, Lit("Loan approved on condition that a Debenture is signed before funding."))
    ELSE IF (loan_type = "secured" /\ ~has_legal_charge)
    THEN Dict("CONDITIONAL_PASS", 99, Lit("Loan approved on condition that the lender obtains a Legal Charge (First or Second) over the security before funding."))
    ELSE IF ~is_due_diligence_complete
    THEN Dict("CONDITIONAL_PASS", 99, Lit("Loan approved on condition that all AML/KYC and Due Diligence checks are successfully completed before funding."))
    ELSE IF ~is_business_registered
    THEN Dict("CONDITIONAL_PASS", 99, Lit("Loan approved on condition that borrower provides proof of business registration before funding."))
    ELSE IF sme_profile = "EB"
    THEN em_evaluate_eb_risk(sme_profile, risk_profile, dscr, loan_amount, loan_type)
    ELSE IF sme_profile = "ESB"
    THEN em_evaluate_esb_risk(sme_profile, risk_profile, dscr, loan_amount, loan_type)
    ELSE IF sme_profile = "NTB"
    THEN em_evaluate_ntb_risk(sme_profile, risk_profile, dscr, loan_amount, loan_type)
    ELSE IF sme_profile = "SU"
    THEN em_evaluate_SU_risk(sme_profile, risk_profile, dscr, loan_amount, loan_type)
    ELSE Dict("FAIL", 99, Lit("Invalid SME profile."))

----------------------------------------------------------------------------
(* logic.py: the happy-path rule tables; a table that matches no rule falls
   off the end of the function and returns None *)

(* logic.py 32-102 *)
logic_evaluate_eb_risk(sme_profile, risk_profile, dscr, loan_amount, loan_type) ==
    LET min_limit == Limits("EB", loan_type).min
        max_limit == Limits("EB", loan_type).max
    IN
    IF sme_profile # "EB"
    THEN Raise("EvaluationError")
    ELSE IF dscr < MIN_DSCR
    THEN Dict("FAIL", 99, Expl("DSCR of {dscr} is below the minimum allowed DSCR of {MIN_DSCR}. Loan declined.", <<dscr, MIN_DSCR>>, <<>>))
    ELSE IF loan_amount < min_limit
    THEN Dict("FAIL", 99, Expl("Loan amount {loan_amount} is below the minimum allowed limit of {min_limit} for EB {loan_type} loans.", <<loan_amount, min_limit>>, <<loan_type>>))
    ELSE IF loan_amount > max_limit
    THEN Dict("FAIL", 99, Expl("Loan amount {loan_amount} exceeds the maximum allowed limit of {max_limit} for EB {loan_type} loans.", <<loan_amount, max_limit>>, <<loan_type>>))
    ELSE IF (risk_profile = "T1" /\ dscr >= 12500) /\ (loan_type = "unsecured" /\ loan_amount <= 150000)
    THEN Dict("PROGRESS", 87, Lit("EB/T1 with DSCR >125% qualifies for an unsecured loan up to 150,000."))
    ELSE IF (risk_profile = "T1" /\ dscr >= 12500) /\ (loan_type = "secured" /\ loan_amount <= 250000)
    THEN Dict("PROGRESS", 89, Lit("EB/T1 with DSCR >150% qualifies for a secured loan."))
    ELSE IF (risk_profile = "T2" /\ dscr >= 12500) /\ (loan_type = "unsecured" /\ loan_amount <= 150000)
    THEN Dict("PROGRESS", 77, Lit("EB/T2 with DSCR >125% qualifies for an unsecured loan up to 150,000."))
    ELSE IF (risk_profile = "T2" /\ dscr >= 12500) /\ (loan_type = "secured" /\ loan_amount <= 250000)
    THEN Dict("PROGRESS", 89, Lit("EB/T2 with DSCR >150% qualifies for a secured loan."))
    ELSE NoneValue

(* logic.py 107-181 *)
logic_evaluate_esb_risk(sme_profile, risk_profile, dscr, loan_amount, loan_type) ==
    LET min_limit == Limits("ESB", loan_type).min
        max_limit == Limits("ESB", loan_type).max
    IN
    IF sme_profile # "ESB"
    THEN Raise("EvaluationError")
    ELSE IF dscr < MIN_DSCR
    THEN Dict("FAIL", 99, Expl("DSCR of {dscr} is below the minimum allowed DSCR of {MIN_DSCR}. Loan declined.", <<dscr, MIN_DSCR>>, <<>>))
    ELSE IF loan_amount < min_limit
    THEN Dict("FAIL", 99, Expl("Loan amount {loan_amount} is below the minimum allowed limit of {min_limit} for ESB {loan_type} loans.", <<loan_amount, min_limit>>, <<loan_type>>))
    ELSE IF loan_amount > max_limit
    THEN Dict("FAIL", 99, Expl("Loan amount {loan_amount} exceeds the maximum allowed limit of {max_limit} for ESB {loan_type} loans.", <<loan_amount, max_limit>>, <<loan_type>>))
    ELSE IF (risk_profile = "T1" /\ dscr >= 12500) /\ (loan_type = "unsecured" /\ loan_amount <= 80000)
    THEN Dict("PROGRESS", 88, Lit("ESB/T1 with DSCR >125% qualifies for an unsecured loan."))
    ELSE IF (risk_profile = "T1" /\ dscr >= 12500) /\ (loan_type = "secured" /\ loan_amount <= 150000)
    THEN Dict("PROGRESS", 88, Lit("ESB/T1 with DSCR >125% qualifies for a secured loan."))
    ELSE IF (risk_profile = "T2" /\ dscr >= 12500) /\ (loan_type = "unsecured" /\ loan_amount <= 80000)
    THEN Dict("PROGRESS", 88, Lit("ESB/T2 with DSCR >125% qualifies for an unsecured loan."))
    ELSE IF (risk_profile = "T2" /\ dscr >= 12500) /\ (loan_type = "secured" /\ loan_amount <= 150000)
    THEN Dict("PROGRESS", 88, Lit("ESB/T2 with DSCR >125% qualifies for a secured loan."))
    ELSE NoneValue

(* logic.py 186-269 *)
logic_evaluate_ntb_risk(sme_profile, risk_profile, dscr, loan_amount, loan_type) ==
    LET min_limit == Limits("NTB", loan_type).min
        max_limit == Limits("NTB", loan_type).max
    IN
    IF sme_profile # "NTB"
    THEN Raise("EvaluationError")
    ELSE IF dscr < MIN_DSCR
    THEN Dict("FAIL", 99, Expl("DSCR of {dscr} is below the minimum allowed DSCR of {MIN_DSCR}. Loan declined.", <<dscr, MIN_DSCR>>, <<>>))
    ELSE IF loan_amount < min_limit
    THEN Dict("FAIL", 99, Expl("Loan amount {loan_amount} is below the minimum allowed limit of {min_limit} for NTB {loan_type} loans.", <<loan_amount, min_limit>>, <<loan_type>>))
    ELSE IF loan_amount > max_limit
    THEN Dict("FAIL", 99, Expl("Loan amount {loan_amount} exceeds the maximum allowed limit of {max_limit} for NTB {loan_type} loans.", <<loan_amount, max_limit>>, <<loan_type>>))
    ELSE IF (risk_profile = "T1" /\ dscr >= 12500) /\ (loan_type = "unsecured" /\ loan_amount <= 60000)
    THEN Dict("PROGRESS", 80, Lit("NTB/T1 with DSCR >125% qualifies for an unsecured loan."))
    ELSE IF (risk_profile = "T1" /\ dscr >= 12500) /\ (loan_type = "secured" /\ dscr > 12500 /\ loan_amount <= 100000)
    THEN Dict("PROGRESS", 85, Lit("NTB/T1 with DSCR >150% qualifies for a secured loan."))
    ELSE IF (risk_profile = "T2" /\ dscr >= 12500) /\ (loan_type = "unsecured" /\ loan_amount <= 60000)
    THEN Dict("PROGRESS", 80, Lit("NTB/T2 with DSCR >125% qualifies for an unsecured loan."))
    ELSE IF (risk_profile = "T2" /\ dscr >= 12500) /\ (loan_type = "secured" /\ dscr > 12500 /\ loan_amount <= 100000)
    THEN Dict("PROGRESS", 85, Lit("NTB/T2 with DSCR >150% qualifies for a secured loan."))
    ELSE NoneValue

(* REQUIRED_DOCUMENTS of config.py as sets of <<document, description>>; the
   descriptions are abbreviated to their opening words *)
REQUIRED_DOCUMENTS ==
    [common |-> {<<"Completed Application Form", "Must capture the loan request">>,
                 <<"Proof of Identity", "For all business owners">>,
                 <<"Proof of Address", "Certified proof of address">>,
                 <<"Bank Statements", "A minimum of 6 months">>,
                 <<"Declaration of Income and Expenditure", "A formal declaration">>,
                 <<"Credit History Documentation", "Evidence of credit history">>,
                 <<"Valuation and Professional Reports", "For secured loans">>,
                 <<"Agreement in Principle", "An agreement in principle">>,
                 <<"Legal Representation/Independent Legal Advice", "Documentation confirming">>},
     EB  |-> {<<"Financial Statements", "Either 3 years of historical accounts">>},
     ESB |-> {<<"Financial Statements", "1 year of historical accounts">>},
     NTB |-> {<<"Financial Statements", "Up to 12 months of historical accounts">>},
     SU  |-> {<<"Financial Statements", "3 years of projections">>}]

(* dict.update: entries of other replace entries of d with the same key *)
DictUpdate(d, other) ==
    {e \in d : \A o \in other : o[1] # e[1]} \cup other

(* variant: the merge works on the module-level "common" entry itself (no .copy()) *)
finalize_conditional_pass_tables_no_copy(sme_profile) ==
    IF sme_profile \in DOMAIN required_documents
    THEN [required_documents EXCEPT !.common = DictUpdate(@, required_documents[sme_profile])]
    ELSE required_documents

(* logic.py 280-284: the merge works on a copy of the "common" entry
   (.copy()), so the module-level object is left as it was *)
finalize_conditional_pass_tables(sme_profile) == required_documents

(* variant: only the common documents are required *)
finalize_conditional_pass_common_only(decision, provided_docs, sme_profile) ==
    LET required_docs == Get(required_documents, "common", {})
        missing_docs  == {e \in required_docs : e[1] \notin provided_docs}
    IN  [decision EXCEPT
            !.decision = config_DECISIONS["CONDITIONAL_PASS"],
            !.missing_documents = missing_docs,
            !.keys = @ \cup {"missing_documents"},
            !.explanation = [@ EXCEPT !.appended = Append(@, " Conditional approval pending submission of required documents.")]]

(* variant: an application with no missing document is passed *)
finalize_conditional_pass_pass_when_complete(decision, provided_docs, sme_profile) ==
    LET common        == Get(required_documents, "common", {})
        required_docs == IF sme_profile \in DOMAIN required_documents
                         THEN DictUpdate(common, Get(required_documents, sme_profile, {}))
                         ELSE common
        missing_docs  == {e \in required_docs : e[1] \notin provided_docs}
    IN  [decision EXCEPT
            !.decision = IF missing_docs = {} THEN "PASS" ELSE config_DECISIONS["CONDITIONAL_PASS"],
            !.missing_documents = missing_docs,
            !.keys = @ \cup {"missing_documents"},
            !.explanation = [@ EXCEPT !.appended = Append(@, " Conditional approval pending submission of required documents.")]]

(* logic.py 274-295 *)
finalize_conditional_pass(decision, provided_docs, sme_profile) ==
    LET common        == Get(required_documents, "common", {})
        required_docs == IF sme_profile \in DOMAIN required_documents
                         THEN DictUpdate(common, Get(required_documents, sme_profile, {}))
                         ELSE common
        missing_docs  == {e \in required_docs : e[1] \notin provided_docs}
    IN  [decision EXCEPT
            !.decision = config_DECISIONS["CONDITIONAL_PASS"],
            !.missing_documents = missing_docs,
            !.keys = @ \cup {"missing_documents"},
            !.explanation = [@ EXCEPT !.appended = Append(@, " Conditional approval pending submission of required documents.")]]

(* logic.py 369-379 *)
get_dscr_level(dscr) ==
    IF dscr >= 15000 THEN "high"
    ELSE IF dscr >= 13500 THEN "medium"
    ELSE "low"

(* the evaluator of logic.py written for segment *)
logic_segment_evaluator(segment, sme_profile, risk_profile, dscr, loan_amount, loan_type) ==
    CASE segment = "EB"  -> logic_evaluate_eb_risk(sme_profile, risk_profile, dscr, loan_amount, loan_type)
      [] segment = "ESB" -> logic_evaluate_esb_risk(sme_profile, risk_profile, dscr, loan_amount, loan_type)
      [] segment = "NTB" -> logic_evaluate_ntb_risk(sme_profile, risk_profile, dscr, loan_amount, loan_type)

(* logic.py 353-367: reading decision["decision"] of a None result raises
   TypeError; the risk score and the PG requirement are attached to whatever
   dict the evaluator returned *)
logic_attach_risk(decision, sme_profile, risk_profile, dscr, industry_sector, provided_docs) ==
    IF decision.kind = "raise"
    THEN decision
    ELSE IF decision.kind # "dict"
    THEN Raise("TypeError")
    ELSE LET finalized    == IF decision.decision = config_DECISIONS["PROGRESS"]
                             THEN finalize_conditional_pass(decision, provided_docs, sme_profile)
                             ELSE decision
             overall_risk == calculate_overall_risk(sme_profile, get_dscr_level(dscr), risk_profile, industry_sector)
         IN  [finalized EXCEPT
                 !.overall_risk = overall_risk,
                 !.required_pg = determine_pg_percentage(overall_risk),
                 !.keys = @ \cup {"overall_risk", "required_pg"}]

(* logic.py 297-367: the module-level REQUIRED_DOCUMENTS after the call;
   only finalize_conditional_pass touches the table *)
evaluate_application_tables(sme_profile, risk_profile, dscr, loan_amount, loan_type) ==
    IF dscr < MIN_DSCR \/ loan_amount < MIN_LOAN_AMOUNT \/ sme_profile \notin {"EB", "ESB", "NTB"}
    THEN required_documents
    ELSE LET decision == logic_segment_evaluator(sme_profile, sme_profile, risk_profile, dscr, loan_amount, loan_type)
         IN  IF decision.kind = "dict" /\ decision.decision = config_DECISIONS["PROGRESS"]
             THEN finalize_conditional_pass_tables(sme_profile)
             ELSE required_documents

(* variant: the amount gate compares with the profile minimum (25000) instead of MIN_LOAN_AMOUNT *)
evaluate_application_segment_minimum(sme_profile, risk_profile, dscr, loan_amount, loan_type, industry_sector, provided_docs) ==
    IF dscr < MIN_DSCR
    THEN Dict(config_DECISIONS["FAIL"], 99, Expl("DSCR of {dscr} is below the minimum threshold of {MIN_DSCR}. Loan declined.", <<dscr, MIN_DSCR>>, <<>>))
    ELSE IF loan_amount < SME_PROFILES["EB"].loan_unsecured.min
    THEN Dict(config_DECISIONS["FAIL"], 99, Expl("Loan amount {loan_amount} is below the minimum threshold of {MIN_LOAN_AMOUNT}.", <<loan_amount, MIN_LOAN_AMOUNT>>, <<>>))
    ELSE IF sme_profile \notin {"EB", "ESB", "NTB"}
    THEN Dict(config_DECISIONS["FAIL"], 99, Expl("SME profile '{sme_profile}' is not supported for the Happy Path.", <<>>, <<sme_profile>>))
    ELSE logic_attach_risk(logic_segment_evaluator(sme_profile, sme_profile, risk_profile, dscr, loan_amount, loan_type),
                           sme_profile, risk_profile, dscr, industry_sector, provided_docs)

(* logic.py 297-367 *)
evaluate_application(sme_profile, risk_profile, dscr, loan_amount, loan_type, industry_sector, provided_docs) ==
    IF dscr < MIN_DSCR
    THEN Dict(config_DECISIONS["FAIL"], 99, Expl("DSCR of {dscr} is below the minimum threshold of {MIN_DSCR}. Loan declined.", <<dscr, MIN_DSCR>>, <<>>))
    ELSE IF loan_amount < MIN_LOAN_AMOUNT
    THEN Dict(config_DECISIONS["FAIL"], 99, Expl("Loan amount {loan_amount} is below the minimum threshold of {MIN_LOAN_AMOUNT}.", <<loan_amount, MIN_LOAN_AMOUNT>>, <<>>))
    ELSE IF sme_profile \notin {"EB", "ESB", "NTB"}
    THEN Dict(config_DECISIONS["FAIL"], 99, Expl("SME profile '{sme_profile}' is not supported for the Happy Path.", <<>>, <<sme_profile>>))
    ELSE logic_attach_risk(logic_segment_evaluator(sme_profile, sme_profile, risk_profile, dscr, loan_amount, loan_type),
                           sme_profile, risk_profile, dscr, industry_sector, provided_docs)

----------------------------------------------------------------------------
(* main.py: the API module's own gate (DSCR compared with 125) and rule
   tables (no limit checks, REQUIREMENT fallback) *)

(* main.py 145-150 *)
main_global_sme_checks(dscr, loan_amount) ==
    IF dscr < 1250000
    THEN Dict("FAIL", 99, Lit("DSCR <125%. Loan declined."))
    ELSE IF loan_amount < 25001
    THEN Dict("FAIL", 99, Lit("Loan amount below 25,001. Does not meet minimum threshold."))
    ELSE EmptyDict

(* main.py 152-203 *)
main_evaluate_eb_risk(risk_profile, dscr, loan_amount, loan_type) ==
    IF (risk_profile = "T1" /\ dscr >= 15000) /\ (loan_type = "unsecured" /\ loan_amount <= 150000)
    THEN Dict("PASS", 90, Lit("EB/T1 with DSCR >150% qualifies for an unsecured loan."))
    ELSE IF (risk_profile = "T1" /\ dscr >= 15000) /\ (loan_type = "secured" /\ loan_amount <= 250000)
    THEN Dict("PASS", 92, Lit("EB/T1 with DSCR >150% qualifies for a secured loan."))
    ELSE IF (risk_profile = "T2" /\ dscr >= 15000) /\ (loan_type = "unsecured" /\ loan_amount <= 150000)
    THEN Dict("PASS", 87, Lit("EB/T2 with DSCR >150% qualifies for an unsecured loan."))
    ELSE IF (risk_profile = "T2" /\ dscr >= 15000) /\ (loan_type = "secured" /\ loan_amount <= 250000)
    THEN Dict("PASS", 89, Lit("EB/T2 with DSCR >150% qualifies for a secured loan."))
    ELSE IF (risk_profile = "T3" /\ dscr >= 15000) /\ (loan_type = "unsecured" /\ loan_amount <= 100000)
    THEN Dict("FLAG/AI", 75, Lit("EB/T3 with DSCR >150% (unsecured): AI review required."))
    ELSE IF (risk_profile = "T3" /\ dscr >= 15000) /\ (loan_type = "secured" /\ loan_amount <= 250000)
    THEN Dict("FLAG/AI", 78, Lit("EB/T3 with DSCR >150% (secured): AI review required."))
    ELSE IF (risk_profile = "T1" /\ 13490 < dscr /\ dscr <= 15000) /\ (loan_type = "unsecured" /\ loan_amount <= 150000)
    THEN Dict("PASS", 85, Lit("EB/T1 with DSCR just below 150% qualifies for an unsecured loan."))
    ELSE IF (risk_profile = "T1" /\ 13490 < dscr /\ dscr <= 15000) /\ (loan_type = "secured" /\ loan_amount <= 250000)
    THEN Dict("PASS", 88, Lit("EB/T1 with DSCR just below 150% qualifies for a secured loan."))
    ELSE IF 13490 < dscr /\ dscr <= 15000 /\ risk_profile = "T2" /\ (loan_type = "unsecured" /\ loan_amount <= 100000)
    THEN Dict("PASS", 80, Lit("EB/T2 with DSCR just below 150% qualifies for an unsecured loan."))
    ELSE IF 13490 < dscr /\ dscr <= 15000 /\ risk_profile = "T2" /\ (loan_type = "secured" /\ loan_amount <= 250000)
    THEN Dict("PASS", 83, Lit("EB/T2 with DSCR just below 150% qualifies for a secured loan."))
    ELSE IF 13490 < dscr /\ dscr <= 15000 /\ risk_profile = "T3" /\ (loan_type = "unsecured" /\ loan_amount <= 75000)
    THEN Dict("FLAG/UW", 70, Lit("EB/T3 with DSCR just below 150%: underwriter review required (unsecured)."))
    ELSE IF 13490 < dscr /\ dscr <= 15000 /\ risk_profile = "T3" /\ (loan_type = "secured" /\ loan_amount <= 250000)
    THEN Dict("FLAG/UW", 72, Lit("EB/T3 with DSCR just below 150%: underwriter review required (secured)."))
    ELSE IF 12500 < dscr /\ dscr <= 13500 /\ risk_profile = "T1" /\ (loan_type = "unsecured" /\ loan_amount <= 100000)
    THEN Dict("PASS", 78, Lit("EB/T1 with DSCR between 125%-135% qualifies for an unsecured loan."))
    ELSE IF 12500 < dscr /\ dscr <= 13500 /\ risk_profile = "T1" /\ (loan_type = "secured" /\ loan_amount <= 250000)
    THEN Dict("PASS", 82, Lit("EB/T1 with DSCR between 125%-135% qualifies for a secured loan."))
    ELSE IF 12500 < dscr /\ dscr <= 13500 /\ risk_profile = "T2" /\ (loan_type = "unsecured" /\ loan_amount <= 75000)
    THEN Dict("PASS", 75, Lit("EB/T2 with DSCR between 125%-135% qualifies for an unsecured loan."))
    ELSE IF 12500 < dscr /\ dscr <= 13500 /\ risk_profile = "T2" /\ (loan_type = "secured" /\ loan_amount <= 250000)
    THEN Dict("PASS", 79, Lit("EB/T2 with DSCR between 125%-135% qualifies for a secured loan."))
    ELSE IF 12500 < dscr /\ dscr <= 13500 /\ risk_profile = "T3" /\ (loan_type = "unsecured" /\ loan_amount <= 50000)
    THEN Dict("FLAG/AI", 65, Lit("EB/T3 with DSCR between 125%-135%: AI review required (unsecured)."))
    ELSE IF 12500 < dscr /\ dscr <= 13500 /\ risk_profile = "T3" /\ (loan_type = "secured" /\ loan_amount <= 250000)
    THEN Dict("FLAG/UW", 70, Lit("EB/T3 with DSCR between 125%-135%: underwriter review required (secured)."))
    ELSE Dict("REQUIREMENT", 99, Lit("Debenture and a minimum of 20% personal guarantee (PG) required."))

(* main.py 205-251 *)
main_evaluate_esb_risk(risk_profile, dscr, loan_amount, loan_type) ==
    IF (risk_profile = "T1" /\ dscr > 15000) /\ (loan_type = "unsecured" /\ loan_amount <= 80000)
    THEN Dict("PASS", 88, Lit("ESB/T1 with DSCR >150% qualifies for an unsecured loan."))
    ELSE IF (risk_profile = "T1" /\ dscr > 15000) /\ (loan_type = "secured" /\ loan_amount <= 150000)
    THEN Dict("PASS", 90, Lit("ESB/T1 with DSCR >150% qualifies for a secured loan."))
    ELSE IF (risk_profile = "T2" /\ dscr > 15000) /\ (loan_type = "unsecured" /\ loan_amount <= 75000)
    THEN Dict("PASS", 85, Lit("ESB/T2 with DSCR >150% qualifies for an unsecured loan."))
    ELSE IF (risk_profile = "T2" /\ dscr > 15000) /\ (loan_type = "secured" /\ loan_amount <= 150000)
    THEN Dict("PASS", 87, Lit("ESB/T2 with DSCR >150% qualifies for a secured loan."))
    ELSE IF (risk_profile = "T3" /\ dscr > 15000) /\ (loan_type = "unsecured" /\ loan_amount <= 60000)
    THEN Dict("FLAG/AI", 70, Lit("ESB/T3 with DSCR >150% (unsecured): AI review required."))
    ELSE IF (risk_profile = "T3" /\ dscr > 15000) /\ (loan_type = "secured" /\ loan_amount <= 150000)
    THEN Dict("FLAG/UW", 72, Lit("ESB/T3 with DSCR >150% (secured): underwriter review required."))
    ELSE IF (risk_profile = "T1" /\ 13500 < dscr /\ dscr <= 15000) /\ (loan_type = "unsecured" /\ loan_amount <= 80000)
    THEN Dict("PASS", 85, Lit("ESB/T1 with DSCR between 135%-150% qualifies for an unsecured loan."))
    ELSE IF (risk_profile = "T1" /\ 13500 < dscr /\ dscr <= 15000) /\ (loan_type = "secured" /\ loan_amount <= 150000)
    THEN Dict("PASS", 87, Lit("ESB/T1 with DSCR between 135%-150% qualifies for a secured loan."))
    ELSE IF (risk_profile = "T2" /\ 13500 < dscr /\ dscr <= 15000) /\ (loan_type = "unsecured" /\ loan_amount <= 75000)
    THEN Dict("PASS", 82, Lit("ESB/T2 with DSCR between 135%-150% qualifies for an unsecured loan."))
    ELSE IF (risk_profile = "T2" /\ 13500 < dscr /\ dscr <= 15000) /\ (loan_type = "secured" /\ loan_amount <= 150000)
    THEN Dict("PASS", 85, Lit("ESB/T2 with DSCR between 135%-150% qualifies for a secured loan."))
    ELSE IF (risk_profile = "T3" /\ 13490 < dscr /\ dscr <= 15000) /\ (loan_type = "unsecured" /\ loan_amount <= 50000)
    THEN Dict("FLAG/AI", 70, Lit("ESB/T3 with DSCR between 135%-150%: AI review required (unsecured)."))
    ELSE IF (risk_profile = "T3" /\ 13490 < dscr /\ dscr <= 15000) /\ (loan_type = "secured" /\ loan_amount <= 150000)
    THEN Dict("FLAG/UW", 72, Lit("ESB/T3 with DSCR between 135%-150%: underwriter review required (secured)."))
    ELSE IF (risk_profile = "T1" /\ 12500 < dscr /\ dscr <= 13500) /\ (loan_type = "unsecured" /\ loan_amount <= 60000)
    THEN Dict("PASS", 80, Lit("ESB/T1 with DSCR between 125%-135% qualifies for an unsecured loan."))
    ELSE IF (risk_profile = "T1" /\ 12500 < dscr /\ dscr <= 13500) /\ (loan_type = "secured" /\ loan_amount <= 150000)
    THEN Dict("PASS", 83, Lit("ESB/T1 with DSCR between 125%-135% qualifies for a secured loan."))
    ELSE IF (risk_profile = "T2" /\ 12500 < dscr /\ dscr < 13500) /\ (loan_type = "unsecured" /\ loan_amount <= 50000)
    THEN Dict("PASS", 75, Lit("ESB/T2 with DSCR >125% and <135% qualifies for an unsecured loan."))
    ELSE IF (risk_profile = "T2" /\ 12500 < dscr /\ dscr < 13500) /\ (loan_type = "secured" /\ loan_amount <= 150000)
    THEN Dict("PASS", 78, Lit("ESB/T2 with DSCR >125% and <135% qualifies for a secured loan."))
    ELSE IF (risk_profile = "T3" /\ 12500 < dscr /\ dscr < 13500) /\ (loan_type = "unsecured" /\ loan_amount <= 40000)
    THEN Dict("FLAG/AI", 70, Lit("ESB/T3 with DSCR >125% and <135%: AI review required (unsecured)."))
    ELSE IF (risk_profile = "T3" /\ 12500 < dscr /\ dscr < 13500) /\ (loan_type = "secured" /\ loan_amount <= 150000)
    THEN Dict("FLAG/UW", 72, Lit("ESB/T3 with DSCR >125% and <135%: underwriter review required (secured)."))
    ELSE Dict("REQUIREMENT", 99, Lit("Debenture and a minimum of 25% personal guarantee (PG) required."))

(* main.py 253-274 *)
main_evaluate_ntb_risk(risk_profile, dscr, loan_amount, loan_type) ==
    IF (risk_profile = "T1" /\ dscr > 12500) /\ (loan_type = "unsecured" /\ loan_amount <= 60000)
    THEN Dict("PASS", 80, Lit("NTB/T1 with DSCR >125% qualifies for an unsecured loan."))
    ELSE IF (risk_profile = "T1" /\ dscr > 12500) /\ (loan_type = "secured" /\ dscr > 15000 /\ loan_amount <= 100000)
    THEN Dict("PASS", 85, Lit("NTB/T1 with DSCR >150% qualifies for a secured loan."))
    ELSE IF (risk_profile = "T2" /\ dscr > 13500) /\ (loan_type = "unsecured" /\ loan_amount <= 60000)
    THEN Dict("PASS", 78, Lit("NTB/T2 with DSCR >135% qualifies for an unsecured loan."))
    ELSE IF (risk_profile = "T2" /\ dscr > 13500) /\ (loan_type = "secured" /\ dscr > 15000 /\ loan_amount <= 100000)
    THEN Dict("PASS", 80, Lit("NTB/T2 with DSCR >150% qualifies for a secured loan."))
    ELSE IF (risk_profile = "T3" /\ dscr > 13500) /\ (loan_type = "unsecured" /\ loan_amount <= 60000)
    THEN Dict("FLAG/AI", 70, Lit("NTB/T3 with DSCR >135%: AI review required (unsecured)."))
    ELSE IF (risk_profile = "T3" /\ dscr > 13500) /\ (loan_type = "secured" /\ dscr > 12500 /\ loan_amount <= 150000)
    THEN Dict("FLAG/UW", 72, Lit("NTB/T3 with DSCR >125%: underwriter review required (secured)."))
    ELSE IF (risk_profile = "T3" /\ 12500 < dscr /\ dscr <= 13500) /\ (loan_type = "unsecured" /\ loan_amount <= 40000)
    THEN Dict("FLAG/AI", 70, Lit("NTB/T3 with DSCR between 125%-135%: AI review required (unsecured)."))
    ELSE IF (risk_profile = "T3" /\ 12500 < dscr /\ dscr <= 13500) /\ (loan_type = "secured" /\ loan_amount <= 150000)
    THEN Dict("FLAG/UW", 72, Lit("NTB/T3 with DSCR between 125%-135%: underwriter review required (secured)."))
    ELSE Dict("REQUIREMENT", 99, Lit("Debenture and a minimum of 50% personal guarantee (PG) required."))

(* main.py 276-307 *)
main_evaluate_su_risk(risk_profile, dscr, loan_amount, loan_type) ==
    IF (risk_profile = "T1" /\ dscr > 13490) /\ (loan_type = "unsecured" /\ loan_amount <= 40000)
    THEN Dict("PASS", 78, Lit("SU/T1 with DSCR >135% qualifies for an unsecured loan."))
    ELSE IF (risk_profile = "T1" /\ dscr > 13490) /\ (loan_type = "secured" /\ loan_amount <= 80000)
    THEN Dict("PASS", 82, Lit("SU/T1 with DSCR >135% qualifies for a secured loan."))
    ELSE IF (risk_profile = "T2" /\ dscr > 13500) /\ (loan_type = "unsecured" /\ loan_amount <= 40000)
    THEN Dict("FLAG/AI", 72, Lit("SU/T2 with DSCR >135%: AI review required (unsecured)."))
    ELSE IF (risk_profile = "T2" /\ dscr > 13500) /\ (loan_type = "secured" /\ loan_amount <= 80000)
    THEN Dict("FLAG/AI", 75, Lit("SU/T2 with DSCR >135%: AI review required (secured)."))
    ELSE IF (risk_profile = "T3" /\ dscr > 13500) /\ (loan_type = "unsecured" /\ loan_amount <= 40000)
    THEN Dict("FLAG/UW", 70, Lit("SU/T3 with DSCR >135%: underwriter review required (unsecured)."))
    ELSE IF (risk_profile = "T3" /\ dscr > 13500) /\ (loan_type = "secured" /\ loan_amount <= 80000)
    THEN Dict("FLAG/UW", 73, Lit("SU/T3 with DSCR >135%: underwriter review required (secured)."))
    ELSE IF (risk_profile = "T1" /\ 12500 < dscr /\ dscr <= 13500) /\ (loan_type = "unsecured" /\ loan_amount <= 40000)
    THEN Dict("FLAG/AI", 70, Lit("SU/T1 with DSCR between 125%-135%: AI review required (unsecured)."))
    ELSE IF (risk_profile = "T1" /\ 12500 < dscr /\ dscr <= 13500) /\ (loan_type = "secured" /\ loan_amount <= 80000)
    THEN Dict("FLAG/AI", 73, Lit("SU/T1 with DSCR between 125%-135%: AI review required (secured)."))
    ELSE IF (risk_profile = "T2" /\ dscr < 13500) /\ (loan_type = "unsecured" /\ loan_amount <= 40000)
    THEN Dict("FAIL", 99, Lit("SU/T2 with DSCR <135% (unsecured): Loan declined."))
    ELSE IF (risk_profile = "T2" /\ dscr < 13500) /\ (loan_type = "secured" /\ loan_amount <= 80000)
    THEN Dict("FAIL", 99, Lit("SU/T2 with DSCR <135% (secured): Loan declined."))
    ELSE IF (risk_profile = "T3" /\ dscr < 13500) /\ (loan_type = "unsecured" /\ loan_amount <= 26000)
    THEN Dict("FAIL", 99, Lit("SU/T3 with DSCR <135% (unsecured): Loan declined."))
    ELSE IF (risk_profile = "T3" /\ dscr < 13500) /\ (loan_type = "secured" /\ loan_amount <= 80000)
    THEN Dict("FAIL", 99, Lit("SU/T3 with DSCR <135% (secured): Loan declined."))
    ELSE Dict("REQUIREMENT", 99, Lit("Debenture and a minimum of 50% personal guarantee (PG) required."))

(* main.py 309-344 *)
main_evaluate_sme_risk(sme_profile, risk_profile, dscr, loan_amount, loan_type, provided_pg, min_pg_required, requires_debenture, has_debenture, has_legal_charge, is_due_diligence_complete, is_business_registered) ==
    LET global_result == main_global_sme_checks(dscr, loan_amount)
    IN
    IF Truthy(global_result)
    THEN global_result
    ELSE IF (sme_profile \in {"SU", "NTB", "ESB"} /\ provided_pg < min_pg_required)
    THEN Dict("CONDITIONAL APPROVAL", 99, Expl("Loan approved on condition that a minimum {int(min_pg_required*100)}% Personal Guarantee (PG) is signed before funding.", <<PyInt(min_pg_required)>>, <<>>))
    ELSE IF (sme_profile \in {"NTB", "ESB", "EB"} /\ requires_debenture /\ ~has_debenture)
    THEN Dict("CONDITIONAL APPROVAL", 99, Lit("Loan approved on condition that a Debenture is signed before funding."))
    ELSE IF (loan_type = "secured" /\ ~has_legal_charge)
    THEN Dict("CONDITIONAL APPROVAL", 99, Lit("Loan approved on condition that the lender obtains a Legal Charge (First or Second) over the security before funding."))
    ELSE IF ~is_due_diligence_complete
    THEN Dict("CONDITIONAL APPROVAL", 99, Lit("Loan approved on condition that all AML/KYC and Due Diligence checks are successfully completed before funding."))
    ELSE IF ~is_business_registered
    THEN Dict("CONDITIONAL APPROVAL", 99, Lit("Loan approved on condition that borrower provides proof of business registration before funding."))
    ELSE IF sme_profile = "EB"
    THEN main_evaluate_eb_risk(risk_profile, dscr, loan_amount, loan_type)
    ELSE IF sme_profile = "ESB"
    THEN main_evaluate_esb_risk(risk_profile, dscr, loan_amount, loan_type)
    ELSE IF sme_profile = "NTB"
    THEN main_evaluate_ntb_risk(risk_profile, dscr, loan_amount, loan_type)
    ELSE IF sme_profile = "SU"
    THEN main_evaluate_su_risk(risk_profile, dscr, loan_amount, loan_type)
    ELSE Dict("FAIL", 99, Lit("Invalid SME profile."))


----------------------------------------------------------------------------
(* Inputs.  Every comparison of the rule tables is against one of the
   thresholds below, so the values cover each side of each threshold. *)

(* 1.20 1.25 1.2501 1.30 1.349 1.3491 1.35 1.3501 1.4999 1.50 1.5001 1.55 *)
DscrValues ==
    {12000, 12500, 12501, 13000, 13490, 13491, 13500, 13501, 14999, 15000, 15001, 15500}

(* DSCR given as a percentage (125, 150), as main.global_sme_checks reads it *)
DscrPercentValues == {1250000, 1500000}

AmountValues ==
    {24999, 25000, 25500, 26000, 35000, 40000, 50000, 60000, 75000, 80000,
     100000, 150000, 200000, 250000, 300000}

SegmentValues == {"EB", "ESB", "NTB", "SU", "OTHER"}

TierValues == {"T1", "T2", "T3"}

LoanTypeValues == {"secured", "unsecured"}

IndustryValues ==
    {"Construction", "Agriculture, Forestry, and Fishing", "Places of Gambling", "Crypto Mining"}

(* <<provided_pg, min_pg_required>> in thousandths *)
PgValues == {<<100, 200>>, <<1000, 200>>, <<200, 255>>}

AllRequiredDocuments ==
    {e[1] : e \in REQUIRED_DOCUMENTS["common"] \cup REQUIRED_DOCUMENTS["EB"]}

ProvidedDocsValues ==
    {{}, {"Proof of Identity", "Financial Statements"}, {"Bank Statements", "Unlisted Document"},
     AllRequiredDocuments}

(* arguments of config.calculate_overall_risk called directly; "unknown" is a
   key of none of the score tables *)
RiskSegmentValues == {"EB", "ESB", "NTB", "SU", "unknown"}

DscrLevelValues == {"high", "medium", "low", "unknown"}

RiskTierValues == {"T1", "T2", "T3", "unknown"}

RiskIndustryValues == ACCEPTABLE_INDUSTRY_SECTORS \cup FAILED_INDUSTRY_SECTORS \cup {"Crypto Mining"}

(* arguments of config.determine_pg_percentage called directly (scaled by
   10000): every score calculate_overall_risk produces and values around and
   outside the calibration range 1.0 .. 2.0 *)
OverallRiskValues ==
    {calculate_overall_risk(s, l, t, i) :
        s \in RiskSegmentValues, l \in DscrLevelValues, t \in RiskTierValues, i \in RiskIndustryValues}
    \cup {0, 5000, 9875, 10000, 10125, 12500, 15000, 17500, 19875, 20000, 20125, 25000, 30000}

(* <<min_loan, max_loan>> passed to adjust_confidence: limits of the profile
   registry and a pair with max_loan = min_loan *)
LimitPairValues == {<<25000, 250000>>, <<25000, 75000>>, <<26000, 40000>>, <<25000, 25000>>}

(* the requested loan as a number of tenths of the range above min_loan (of
   pounds when the range is empty): below, inside and above the limits *)
RequestedSteps == -2 .. 12

RequestedLoan(limits, step) ==
    IF limits[2] # limits[1]
    THEN limits[1] + step * ((limits[2] - limits[1]) \div 10)
    ELSE limits[1] + step

BaseConfidenceValues == {SME_PROFILES[p].confidence : p \in DOMAIN SME_PROFILES}

(* the outcomes handed to finalize_conditional_pass called directly *)
FinalizeDecisionValues ==
    {Dict("PROGRESS", 89, Lit("EB/T1 with DSCR >150% qualifies for a secured loan.")),
     Dict("PROGRESS", 77, Lit("EB/T2 with DSCR >125% qualifies for an unsecured loan up to 150,000."))}

(* the Python name of the evaluator written for a segment *)
EvaluatorName ==
    [EB |-> "evaluate_eb_risk", ESB |-> "evaluate_esb_risk", NTB |-> "evaluate_ntb_risk",
     SU |-> "evaluate_SU_risk"]

NoCall ==
    [fn |-> "", evaluator |-> "", sme_profile |-> "", risk_profile |-> "", dscr |-> 0, loan_amount |-> 0,
     loan_type |-> "", industry_sector |-> "", provided_docs |-> {},
     provided_pg |-> 0, min_pg_required |-> 0, requires_debenture |-> FALSE,
     has_debenture |-> FALSE, has_legal_charge |-> FALSE,
     is_due_diligence_complete |-> FALSE, is_business_registered |-> FALSE,
     dscr_level |-> "", overall_risk |-> 0,
     decision |-> EmptyDict, base_confidence |-> 0, min_loan |-> 0, max_loan |-> 0]

CoreCall(fn, sme, tier, dscr, amount, lt) ==
    [NoCall EXCEPT !.fn = fn, !.sme_profile = sme, !.risk_profile = tier, !.dscr = dscr,
                   !.loan_amount = amount, !.loan_type = lt]

ChainCall(fn, sme, tier, dscr, amount, lt, pg, rd, hd, lc, dd, br) ==
    [CoreCall(fn, sme, tier, dscr, amount, lt) EXCEPT
        !.provided_pg = pg[1], !.min_pg_required = pg[2], !.requires_debenture = rd,
        !.has_debenture = hd, !.has_legal_charge = lc,
        !.is_due_diligence_complete = dd, !.is_business_registered = br]

----------------------------------------------------------------------------
(* State machine: one evaluation request at a time.  pc = "idle": no request;
   pc = "done": call holds the request's arguments and result what the
   function returned (or raised). *)

NoPrevious == [call |-> NoCall, result |-> EmptyDict]

NoNarrative == [bound |-> FALSE, text |-> <<>>]

NarrativeIdle ==
    /\ lpc = "idle"
    /\ loop_call = [module |-> "", evaluation_decision |-> EmptyDict]
    /\ evaluation_decision = EmptyDict
    /\ attempt = 0
    /\ narrative = NoNarrative
    /\ gpt_calls = <<>>
    /\ loop_result = [kind |-> "", value |-> <<>>, error |-> ""]

Init ==
    /\ pc = "idle"
    /\ call = NoCall
    /\ result = EmptyDict
    /\ previous = NoPrevious
    /\ required_documents = REQUIRED_DOCUMENTS
    /\ decision_dict = EmptyDict
    /\ NarrativeIdle

(* config.global_sme_checks *)
ConfigGlobalChecks ==
    /\ pc = "idle"
    /\ \E sme \in SegmentValues, tier \in TierValues, dscr \in DscrValues,
          amount \in AmountValues, ind \in IndustryValues :
          /\ call' = [CoreCall("config.global_sme_checks", sme, tier, dscr, amount, "")
                         EXCEPT !.industry_sector = ind]
          /\ result' = config_global_sme_checks(dscr, amount, tier, sme, ind)
    /\ pc' = "done"
    /\ UNCHANGED <<previous, required_documents, decision_dict, narrative_vars>>

(* config.calculate_overall_risk *)
ConfigCalculateOverallRisk ==
    /\ pc = "idle"
    /\ \E sme \in RiskSegmentValues, level \in DscrLevelValues, tier \in RiskTierValues,
          ind \in RiskIndustryValues :
          /\ call' = [NoCall EXCEPT !.fn = "config.calculate_overall_risk", !.sme_profile = sme,
                                    !.dscr_level = level, !.risk_profile = tier,
                                    !.industry_sector = ind]
          /\ result' = Float(calculate_overall_risk(sme, level, tier, ind))
    /\ pc' = "done"
    /\ UNCHANGED <<previous, required_documents, decision_dict, narrative_vars>>

(* config.determine_pg_percentage *)
ConfigDeterminePgPercentage ==
    /\ pc = "idle"
    /\ \E risk \in OverallRiskValues :
          /\ call' = [NoCall EXCEPT !.fn = "config.determine_pg_percentage", !.overall_risk = risk]
          /\ result' = Float(determine_pg_percentage(risk))
    /\ pc' = "done"
    /\ UNCHANGED <<previous, required_documents, decision_dict, narrative_vars>>

(* config.adjust_confidence *)
ConfigAdjustConfidence ==
    /\ pc = "idle"
    /\ \E sme \in SegmentValues, limits \in LimitPairValues, step \in RequestedSteps,
          tier \in RiskTierValues, level \in DscrLevelValues,
          ind \in {"Construction", "Crypto Mining"} :
          /\ call' = [NoCall EXCEPT !.fn = "config.adjust_confidence", !.sme_profile = sme,
                                    !.loan_amount = RequestedLoan(limits, step),
                                    !.min_loan = limits[1], !.max_loan = limits[2],
                                    !.risk_profile = tier, !.dscr_level = level,
                                    !.industry_sector = ind]
          /\ result' = Float(config_adjust_confidence(sme, RequestedLoan(limits, step), limits[1],
                                                      limits[2], tier, level, ind))
    /\ pc' = "done"
    /\ UNCHANGED <<previous, required_documents, decision_dict, narrative_vars>>

(* evaluation_module.adjust_confidence *)
EmAdjustConfidence ==
    /\ pc = "idle"
    /\ \E base \in BaseConfidenceValues, limits \in LimitPairValues, step \in RequestedSteps,
          tier \in RiskTierValues, level \in DscrLevelValues :
          /\ call' = [NoCall EXCEPT !.fn = "evaluation_module.adjust_confidence",
                                    !.base_confidence = base,
                                    !.loan_amount = RequestedLoan(limits, step),
                                    !.min_loan = limits[1], !.max_loan = limits[2],
                                    !.risk_profile = tier, !.dscr_level = level]
          /\ result' = Float(em_adjust_confidence(base, RequestedLoan(limits, step), limits[1],
                                                  limits[2], tier, level))
    /\ pc' = "done"
    /\ UNCHANGED <<previous, required_documents, decision_dict, narrative_vars>>

(* logic.finalize_conditional_pass called directly; the function writes into
   the dict it is given and returns that same object (logic.py 292-295) *)
LogicFinalizeConditionalPass ==
    /\ pc = "idle"
    /\ \E d \in FinalizeDecisionValues, docs \in ProvidedDocsValues, sme \in SegmentValues :
          /\ call' = [NoCall EXCEPT !.fn = "logic.finalize_conditional_pass", !.decision = d,
                                    !.provided_docs = docs, !.sme_profile = sme]
          /\ result' = finalize_conditional_pass(d, docs, sme)
          /\ decision_dict' = finalize_conditional_pass(d, docs, sme)
          /\ required_documents' = finalize_conditional_pass_tables(sme)
    /\ pc' = "done"
    /\ UNCHANGED <<previous, narrative_vars>>

(* logic.finalize_conditional_pass applied again to the same dict object *)
LogicFinalizeConditionalPassAgain ==
    /\ pc = "done"
    /\ call.fn = "logic.finalize_conditional_pass"
    /\ previous = NoPrevious
    /\ previous' = [call |-> call, result |-> result]
    /\ result' = finalize_conditional_pass(decision_dict, call.provided_docs, call.sme_profile)
    /\ decision_dict' = finalize_conditional_pass(decision_dict, call.provided_docs, call.sme_profile)
    /\ required_documents' = finalize_conditional_pass_tables(call.sme_profile)
    /\ UNCHANGED <<pc, call, narrative_vars>>

(* evaluation_module.evaluate_sme_risk *)
EmEvaluateSmeRisk ==
    /\ pc = "idle"
    /\ \E sme \in SegmentValues, tier \in TierValues, dscr \in DscrValues,
          amount \in AmountValues, lt \in LoanTypeValues, pg \in PgValues,
          rd \in BOOLEAN, hd \in BOOLEAN, lc \in BOOLEAN, dd \in BOOLEAN, br \in BOOLEAN :
          /\ call' = ChainCall("evaluation_module.evaluate_sme_risk", sme, tier, dscr, amount, lt,
                               pg, rd, hd, lc, dd, br)
          /\ result' = em_evaluate_sme_risk(sme, tier, dscr, amount, lt, pg[1], pg[2],
                                            rd, hd, lc, dd, br)
    /\ pc' = "done"
    /\ UNCHANGED <<previous, required_documents, decision_dict, narrative_vars>>

(* evaluation_module.evaluate_sme_risk called a second time with the
   arguments of the call that has just returned *)
EmEvaluateSmeRiskAgain ==
    /\ pc = "done"
    /\ call.fn = "evaluation_module.evaluate_sme_risk"
    /\ previous = NoPrevious
    /\ previous' = [call |-> call, result |-> result]
    /\ result' = em_evaluate_sme_risk(call.sme_profile, call.risk_profile, call.dscr,
                                      call.loan_amount, call.loan_type, call.provided_pg,
                                      call.min_pg_required, call.requires_debenture,
                                      call.has_debenture, call.has_legal_charge,
                                      call.is_due_diligence_complete, call.is_business_registered)
    /\ UNCHANGED <<pc, call, required_documents, decision_dict, narrative_vars>>

(* a segment evaluator of evaluation_module.py called directly *)
EmSegmentEvaluator ==
    /\ pc = "idle"
    /\ \E seg \in {"EB", "ESB", "NTB", "SU"}, sme \in SegmentValues, tier \in TierValues,
          dscr \in DscrValues, amount \in AmountValues, lt \in LoanTypeValues :
          /\ call' = [CoreCall("evaluation_module." \o EvaluatorName[seg], sme, tier, dscr, amount, lt)
                         EXCEPT !.evaluator = seg]
          /\ result' = em_segment_evaluator(seg, sme, tier, dscr, amount, lt)
    /\ pc' = "done"
    /\ UNCHANGED <<previous, required_documents, decision_dict, narrative_vars>>

(* a segment evaluator of logic.py called directly *)
LogicSegmentEvaluator ==
    /\ pc = "idle"
    /\ \E seg \in {"EB", "ESB", "NTB"}, sme \in SegmentValues, tier \in TierValues,
          dscr \in DscrValues, amount \in AmountValues, lt \in LoanTypeValues :
          /\ call' = [CoreCall("logic." \o EvaluatorName[seg], sme, tier, dscr, amount, lt)
                         EXCEPT !.evaluator = seg]
          /\ result' = logic_segment_evaluator(seg, sme, tier, dscr, amount, lt)
    /\ pc' = "done"
    /\ UNCHANGED <<previous, required_documents, decision_dict, narrative_vars>>

(* logic.evaluate_application; call.provided_docs is the caller's list, which
   the function only reads (doc not in provided_docs) *)
LogicEvaluateApplication ==
    /\ pc = "idle"
    /\ \E sme \in SegmentValues, tier \in TierValues, dscr \in DscrValues,
          amount \in AmountValues, lt \in LoanTypeValues, ind \in IndustryValues,
          docs \in ProvidedDocsValues :
          /\ call' = [CoreCall("logic.evaluate_application", sme, tier, dscr, amount, lt)
                         EXCEPT !.industry_sector = ind, !.provided_docs = docs]
          /\ result' = evaluate_application(sme, tier, dscr, amount, lt, ind, docs)
          /\ required_documents' = evaluate_application_tables(sme, tier, dscr, amount, lt)
    /\ pc' = "done"
    /\ UNCHANGED <<previous, decision_dict, narrative_vars>>

(* logic.evaluate_application called a second time with the arguments of the
   call that has just returned; it reads the module table and the list as the
   first call left them *)
LogicEvaluateApplicationAgain ==
    /\ pc = "done"
    /\ call.fn = "logic.evaluate_application"
    /\ previous = NoPrevious
    /\ previous' = [call |-> call, result |-> result]
    /\ result' = evaluate_application(call.sme_profile, call.risk_profile, call.dscr,
                                      call.loan_amount, call.loan_type, call.industry_sector,
                                      call.provided_docs)
    /\ required_documents' = evaluate_application_tables(call.sme_profile, call.risk_profile,
                                                         call.dscr, call.loan_amount, call.loan_type)
    /\ UNCHANGED <<pc, call, decision_dict, narrative_vars>>

(* main.evaluate_sme_risk *)
MainEvaluateSmeRisk ==
    /\ pc = "idle"
    /\ \E sme \in SegmentValues, tier \in TierValues,
          dscr \in DscrValues \cup DscrPercentValues,
          amount \in AmountValues, lt \in LoanTypeValues, pg \in PgValues,
          rd \in BOOLEAN, hd \in BOOLEAN, lc \in BOOLEAN, dd \in BOOLEAN, br \in BOOLEAN :
          /\ call' = ChainCall("main.evaluate_sme_risk", sme, tier, dscr, amount, lt,
                               pg, rd, hd, lc, dd, br)
          /\ result' = main_evaluate_sme_risk(sme, tier, dscr, amount, lt, pg[1], pg[2],
                                              rd, hd, lc, dd, br)
    /\ pc' = "done"
    /\ UNCHANGED <<previous, required_documents, decision_dict, narrative_vars>>

(* the caller takes the result; the engine keeps nothing of the request but
   its module-level tables *)
Return ==
    /\ pc = "done"
    /\ pc' = "idle"
    /\ call' = NoCall
    /\ result' = EmptyDict
    /\ previous' = NoPrevious
    /\ decision_dict' = EmptyDict
    /\ UNCHANGED <<required_documents, narrative_vars>>

Next ==
    \/ ConfigGlobalChecks
    \/ ConfigCalculateOverallRisk
    \/ ConfigDeterminePgPercentage
    \/ ConfigAdjustConfidence
    \/ EmAdjustConfidence
    \/ LogicFinalizeConditionalPass
    \/ LogicFinalizeConditionalPassAgain
    \/ EmEvaluateSmeRisk
    \/ EmEvaluateSmeRiskAgain
    \/ EmSegmentEvaluator
    \/ LogicSegmentEvaluator
    \/ LogicEvaluateApplication
    \/ LogicEvaluateApplicationAgain
    \/ MainEvaluateSmeRisk
    \/ Return

Spec == Init /\ [][Next]_vars

----------------------------------------------------------------------------
(* generate_and_verify_narrative of evaluation_module.py (1007-1036) and of
   narrative.py (194-213).  call_gpt is the collaborator: each call either
   returns a text or raises.  A text is a sequence of words; the test
   "No contradictions found" in check_result is the contiguous-subsequence
   test on words, case-sensitive as in Python. *)

(* variant: one more attempt *)
max_retries_four == 3 + 1

max_retries == 3

NoContradictionsFound == <<"No", "contradictions", "found">>

(* variant: text.startswith(needle) *)
Contains_at_start(text, needle) ==
    /\ Len(text) >= Len(needle)
    /\ \A j \in 1 .. Len(needle) : text[j] = needle[j]

(* needle in text *)
Contains(text, needle) ==
    \E i \in 0 .. (Len(text) - Len(needle)) :
        \A j \in 1 .. Len(needle) : text[i + j] = needle[j]

(* what call_gpt may return to the generator *)
NarrativeTexts ==
    {<<"Decisioning", "Summary", "A">>, <<"Decisioning", "Summary", "B">>}

(* what call_gpt may return to the verifier *)
CheckTexts ==
    {<<"No", "contradictions", "found", ".">>,
     <<"Review", "complete", ":", "No", "contradictions", "found", "in", "the", "narrative">>,
     <<"no", "contradictions", "found">>,
     <<"The", "narrative", "contradicts", "the", "decision">>}

GptFailure == [ok |-> FALSE, text |-> <<>>]

GptReply(text) == [ok |-> TRUE, text |-> text]

(* the decisions handed to the loop: outcomes of the engine, and the {} of a
   passed global gate, which has none of the keys the prompts read *)
NarrativeDecisionValues ==
    {em_evaluate_sme_risk("EB", "T2", 15500, 200000, "secured", 1000, 200, FALSE, FALSE, TRUE, TRUE, TRUE),
     em_evaluate_sme_risk("ESB", "T3", 12000, 35000, "unsecured", 1000, 200, FALSE, FALSE, TRUE, TRUE, TRUE),
     evaluate_application("EB", "T1", 15500, 100000, "secured", "Construction", {}),
     EmptyDict}

(* the prompts format evaluation_decision['decision'], ['confidence'] and
   ['explanation'] before call_gpt is reached (evaluation_module.py 948-950,
   983-985; narrative.py 108-110): a missing key raises KeyError *)
PromptError(decision) ==
    IF BaseKeys \subseteq decision.keys THEN "" ELSE "KeyError"

(* the exception generate_underwriter_narrative and check_underwriter_narrative
   raise when call_gpt fails: EvaluationError (evaluation_module.py 963, 1000),
   Exception (narrative.py 161, 191) *)
WrappedError(module) ==
    IF module = "evaluation_module" THEN "EvaluationError" ELSE "Exception"

(* the except clauses of the loop: except EvaluationError (evaluation_module.py
   1020, 1026), except Exception (narrative.py 205) *)
Caught(module, error) ==
    IF module = "evaluation_module" THEN error = "EvaluationError" ELSE TRUE

GptCall(fn, text, reply) ==
    [fn |-> fn, attempt |-> attempt + 1, narrative |-> text, reply |-> reply]

Returned(text) == [kind |-> "return", value |-> text, error |-> ""]

Raised(error) == [kind |-> "raise", value |-> <<>>, error |-> error]

(* continue, or the end of an iteration without acceptance: the next attempt,
   or the statements after the loop *)
NextAttempt ==
    /\ attempt' = attempt + 1
    /\ lpc' = IF attempt + 1 < max_retries THEN "generate" ELSE "exhausted"

(* an exception the loop does not catch ends the call *)
Propagate(error) ==
    /\ lpc' = "returned"
    /\ loop_result' = Raised(error)
    /\ UNCHANGED attempt

(* the call: narrative.py initialises narrative = "" (line 199),
   evaluation_module.py leaves the local unbound until a generation succeeds *)
GenerateAndVerifyNarrative ==
    /\ lpc = "idle"
    /\ \E module \in {"evaluation_module", "narrative"}, decision \in NarrativeDecisionValues :
          /\ loop_call' = [module |-> module, evaluation_decision |-> decision]
          /\ evaluation_decision' = decision
          /\ narrative' = IF module = "narrative" THEN [bound |-> TRUE, text |-> <<>>]
                          ELSE NoNarrative
    /\ attempt' = 0
    /\ gpt_calls' = <<>>
    /\ lpc' = "generate"
    /\ UNCHANGED <<loop_result, decision_vars>>

(* narrative = generate_underwriter_narrative(evaluation_decision) *)
GenerateNarrative ==
    /\ lpc = "generate"
    /\ IF PromptError(evaluation_decision) # ""
       THEN /\ IF Caught(loop_call.module, PromptError(evaluation_decision))
               THEN NextAttempt /\ UNCHANGED loop_result
               ELSE Propagate(PromptError(evaluation_decision))
            /\ UNCHANGED <<narrative, gpt_calls>>
       ELSE \E reply \in {GptFailure} \cup {GptReply(t) : t \in NarrativeTexts} :
               /\ gpt_calls' = Append(gpt_calls, GptCall("generate_underwriter_narrative", <<>>, reply))
               /\ IF reply.ok
                  THEN /\ narrative' = [bound |-> TRUE, text |-> reply.text]
                       /\ lpc' = "check"
                       /\ UNCHANGED <<attempt, loop_result>>
                  ELSE /\ IF Caught(loop_call.module, WrappedError(loop_call.module))
                          THEN NextAttempt /\ UNCHANGED loop_result
                          ELSE Propagate(WrappedError(loop_call.module))
                       /\ UNCHANGED narrative
    /\ UNCHANGED <<loop_call, evaluation_decision, decision_vars>>

(* check_result = check_underwriter_narrative(narrative, evaluation_decision)
   and the test of the reply *)
CheckNarrative ==
    /\ lpc = "check"
    /\ \E reply \in {GptFailure} \cup {GptReply(t) : t \in CheckTexts} :
          /\ gpt_calls' = Append(gpt_calls, GptCall("check_underwriter_narrative", narrative.text, reply))
          /\ IF reply.ok
             THEN IF Contains(reply.text, NoContradictionsFound)
                  THEN /\ lpc' = "returned"
                       /\ loop_result' = Returned(narrative.text)
                       /\ UNCHANGED attempt
                  ELSE NextAttempt /\ UNCHANGED loop_result
             ELSE IF Caught(loop_call.module, WrappedError(loop_call.module))
                  THEN NextAttempt /\ UNCHANGED loop_result
                  ELSE Propagate(WrappedError(loop_call.module))
    /\ UNCHANGED <<loop_call, evaluation_decision, narrative, decision_vars>>

(* variant: the statements after the loop return the first generated narrative *)
ReturnLastNarrative_first ==
    /\ lpc = "exhausted"
    /\ lpc' = "returned"
    /\ loop_result' =
          IF narrative.bound
          THEN Returned(IF \E i \in DOMAIN gpt_calls : gpt_calls[i].fn = "generate_underwriter_narrative" /\ gpt_calls[i].reply.ok
                        THEN LET first == CHOOSE i \in DOMAIN gpt_calls :
                                            /\ gpt_calls[i].fn = "generate_underwriter_narrative" /\ gpt_calls[i].reply.ok
                                            /\ \A j \in 1 .. (i - 1) : ~(gpt_calls[j].fn = "generate_underwriter_narrative" /\ gpt_calls[j].reply.ok)
                             IN  gpt_calls[first].reply.text
                        ELSE narrative.text)
          ELSE Raised("UnboundLocalError")
    /\ UNCHANGED <<loop_call, evaluation_decision, attempt, narrative, gpt_calls, decision_vars>>

(* return narrative after the loop: reading a local that was never bound
   raises UnboundLocalError *)
ReturnLastNarrative ==
    /\ lpc = "exhausted"
    /\ lpc' = "returned"
    /\ loop_result' = IF narrative.bound THEN Returned(narrative.text)
                      ELSE Raised("UnboundLocalError")
    /\ UNCHANGED <<loop_call, evaluation_decision, attempt, narrative, gpt_calls, decision_vars>>

NarrativeNext ==
    \/ GenerateAndVerifyNarrative
    \/ GenerateNarrative
    \/ CheckNarrative
    \/ ReturnLastNarrative

NarrativeSpec == Init /\ [][NarrativeNext]_vars

(* the loop is straight-line Python: a started call keeps running *)
NarrativeLive == NarrativeSpec /\ WF_vars(NarrativeNext)


----------------------------------------------------------------------------
(* Vocabulary of the properties *)

Done(fn) == pc = "done" /\ call.fn = fn

EmSegmentEvaluatorCall ==
    pc = "done" /\ call.evaluator # "" /\ call.fn = "evaluation_module." \o EvaluatorName[call.evaluator]

LogicSegmentEvaluatorCall ==
    pc = "done" /\ call.evaluator # "" /\ call.fn = "logic." \o EvaluatorName[call.evaluator]

FiveTags == {"PASS", "FAIL", "CONDITIONAL_PASS", "FLAG/AI", "FLAG/UW"}

(* FAIL < FLAG_UW < FLAG_AI < CONDITIONAL_PASS < PASS *)
Favourability(decision) ==
    CASE decision = "FAIL" -> 0
      [] decision = "FLAG/UW" -> 1
      [] decision = "FLAG/AI" -> 2
      [] decision = "CONDITIONAL_PASS" -> 3
      [] decision = "PASS" -> 4
      [] OTHER -> -1

Min(S) == CHOOSE x \in S : \A y \in S : x <= y

PassesGate == call.dscr >= 12500 /\ call.loan_amount >= 25001

----------------------------------------------------------------------------
(* C1: every outcome returned by evaluation_module.evaluate_sme_risk, by
   logic.evaluate_application and by config.global_sme_checks has a
   confidence between 0.50 and 1.00. *)
C1_ConfidenceInRange ==
    (/\ pc = "done"
     /\ call.fn \in {"evaluation_module.evaluate_sme_risk", "logic.evaluate_application",
                     "config.global_sme_checks"}
     /\ result.kind = "dict")
    => (50 <= result.confidence /\ result.confidence <= 100)

(* a rule of the Established table decided, with its own confidence *)
C1_Witness ==
    /\ Done("evaluation_module.evaluate_sme_risk")
    /\ PassesGate
    /\ result.kind = "dict"
    /\ result.decision = "PASS"
    /\ result.confidence = 75

(* C2: with dscr < 1.25 or loanAmount < 25001 the three gates return FAIL,
   whatever the other fields are. *)
C2_GateFails ==
    (/\ pc = "done"
     /\ call.fn \in {"evaluation_module.evaluate_sme_risk", "logic.evaluate_application",
                     "config.global_sme_checks"}
     /\ (call.dscr < 12500 \/ call.loan_amount < 25001))
    => (result.kind = "dict" /\ result.decision = "FAIL")

(* 25000 is within every EB limit, so only the gate declines it *)
C2_Witness ==
    /\ Done("logic.evaluate_application")
    /\ call.sme_profile = "EB" /\ call.risk_profile = "T1"
    /\ call.dscr >= 12500 /\ call.loan_amount = 25000
    /\ result.kind = "dict" /\ result.decision = "FAIL"
    /\ result.keys = BaseKeys

(* C3: every segment evaluator, called for its own segment, returns an
   outcome (never None) for every tier, dscr, security type and amount, so
   logic.evaluate_application never fails while reading the result. *)
C3_RuleTablesTotal ==
    /\ ((EmSegmentEvaluatorCall \/ LogicSegmentEvaluatorCall) /\ call.sme_profile = call.evaluator)
          => result.kind = "dict"
    /\ Done("logic.evaluate_application") => result.kind = "dict"

(* C4: a FAIL returned by logic.evaluate_application carries neither
   missing_documents nor required_pg. *)
C4_FailCarriesNoRequirement ==
    (Done("logic.evaluate_application") /\ result.kind = "dict" /\ result.decision = "FAIL")
    => result.keys \cap {"missing_documents", "required_pg"} = {}

(* C5: the decision of every outcome returned by evaluation_module.evaluate_sme_risk,
   logic.evaluate_application and main.evaluate_sme_risk is one of the five tags. *)
C5_DecisionIsOneOfFiveTags ==
    (/\ pc = "done"
     /\ call.fn \in {"evaluation_module.evaluate_sme_risk", "logic.evaluate_application",
                     "main.evaluate_sme_risk"}
     /\ result.kind = "dict")
    => result.decision \in FiveTags

(* The checks of config.global_sme_checks that the request violates, numbered
   in the documented order: 1 DSCR, 2 amount, 3 tier, 4 segment, 5 industry *)
GateViolations ==
    {i \in 1..5 :
        \/ i = 1 /\ call.dscr < 12500
        \/ i = 2 /\ call.loan_amount < 25001
        \/ i = 3 /\ call.risk_profile = "T3"
        \/ i = 4 /\ call.sme_profile = "SU"
        \/ i = 5 /\ call.industry_sector \notin ACCEPTABLE_INDUSTRY_SECTORS}

GateExplanation(i) ==
    CASE i = 1 -> "DSCR < {MIN_DSCR * 100:.0f}%. Loan declined."
      [] i = 2 -> "Loan amount below {MIN_LOAN_AMOUNT}. Does not meet minimum threshold."
      [] i = 3 -> "T3 risk profiles do not meet the minimum credit profile threshold."
      [] i = 4 -> "Startups are not considered for the Happy Path."
      [] i = 5 -> IF call.industry_sector \in FAILED_INDUSTRY_SECTORS
                  THEN "Industry sector '{industry_sector}' is not accepted."
                  ELSE "Industry sector '{industry_sector}' is not recognized."

(* C6: config.global_sme_checks answers with the explanation of the first
   violated check in the order DSCR, amount, tier, segment, industry, and
   returns the empty result only when no check is violated. *)
C6_FirstViolatedCheckExplains ==
    Done("config.global_sme_checks") =>
        /\ result.kind = "dict" =>
              /\ GateViolations # {}
              /\ result.explanation.msg = GateExplanation(Min(GateViolations))
        /\ result.kind = "empty" => GateViolations = {}
        /\ (GateViolations # {} /\ Min(GateViolations) < 5) => result.kind = "dict"

(* tier, segment and industry violated at once: the tier explains *)
C6_Witness ==
    /\ Done("config.global_sme_checks")
    /\ GateViolations = {3, 4, 5}
    /\ result.kind = "dict"
    /\ result.explanation.msg = GateExplanation(3)

(* C7: past the DSCR, amount, tier and segment checks, an industry sector in
   neither list gives FLAG/UW and a sector of FAILED_INDUSTRY_SECTORS gives FAIL. *)
C7_UnrecognizedSectorFlagsUnderwriter ==
    (Done("config.global_sme_checks") /\ GateViolations = {5}) =>
        /\ result.kind = "dict"
        /\ result.decision = (IF call.industry_sector \in FAILED_INDUSTRY_SECTORS
                              THEN "FAIL" ELSE "FLAG/UW")

GateMessages ==
    {GateExplanation(i) : i \in 1..4}
    \cup {"DSCR <125%. Loan declined.",
          "Loan amount below 25,001. Does not meet minimum threshold.",
          "DSCR of {dscr} is below the minimum threshold of {MIN_DSCR}. Loan declined.",
          "Loan amount {loan_amount} is below the minimum threshold of {MIN_LOAN_AMOUNT}."}

(* C8 as stated: a T3 or Startup application past the DSCR and amount checks
   is failed by the gate in evaluation_module.evaluate_sme_risk and in
   logic.evaluate_application. *)
C8_EntryPointsFailTier3AndStartup ==
    (/\ pc = "done"
     /\ call.fn \in {"evaluation_module.evaluate_sme_risk", "logic.evaluate_application"}
     /\ PassesGate
     /\ (call.risk_profile = "T3" \/ call.sme_profile = "SU"))
    => (result.kind = "dict" /\ result.decision = "FAIL")

(* C8 amended: config.global_sme_checks fails a T3 or Startup application past
   the DSCR and amount checks (tier explanation first); the entry points do not
   consult that gate: evaluation_module.evaluate_sme_risk and
   logic.evaluate_application never answer such an application with a gate
   explanation, except that logic.evaluate_application fails a Startup from
   its unsupported-segment branch, attaching nothing. *)
C8_OnlyConfigGateFailsTier3AndStartup ==
    (pc = "done" /\ PassesGate /\ (call.risk_profile = "T3" \/ call.sme_profile = "SU")) =>
        /\ call.fn = "config.global_sme_checks" =>
              /\ result.kind = "dict" /\ result.decision = "FAIL"
              /\ result.explanation.msg
                   = GateExplanation(IF call.risk_profile = "T3" THEN 3 ELSE 4)
        /\ call.fn \in {"evaluation_module.evaluate_sme_risk", "logic.evaluate_application"} =>
              result.explanation.msg \notin GateMessages
        /\ (call.fn = "logic.evaluate_application" /\ call.sme_profile = "SU") =>
              /\ result.kind = "dict" /\ result.decision = "FAIL"
              /\ result.explanation.msg = "SME profile '{sme_profile}' is not supported for the Happy Path."
              /\ result.keys = BaseKeys

(* a T3 application reaches the Established rule table and is flagged, not failed *)
C8_Witness ==
    /\ Done("evaluation_module.evaluate_sme_risk")
    /\ PassesGate
    /\ call.risk_profile = "T3" /\ call.sme_profile = "EB"
    /\ result.decision = "FLAG/AI"

(* The supplementary conditions of the chain that the request leaves unmet,
   numbered in the documented order *)
UnmetConditions ==
    {i \in 1..5 :
        \/ i = 1 /\ call.sme_profile # "EB" /\ call.provided_pg < call.min_pg_required
        \/ i = 2 /\ call.sme_profile # "SU" /\ call.requires_debenture /\ ~call.has_debenture
        \/ i = 3 /\ call.loan_type = "secured" /\ ~call.has_legal_charge
        \/ i = 4 /\ ~call.is_due_diligence_complete
        \/ i = 5 /\ ~call.is_business_registered}

ConditionExplanation(i) ==
    CASE i = 1 -> "Loan approved on condition that a minimum {int(min_pg_required * 100)}% Personal Guarantee (PG) is signed before funding."
      [] i = 2 -> "Loan approved on condition that a Debenture is signed before funding."
      [] i = 3 -> "Loan approved on condition that the lender obtains a Legal Charge (First or Second) over the security before funding."
      [] i = 4 -> "Loan approved on condition that all AML/KYC and Due Diligence checks are successfully completed before funding."
      [] i = 5 -> "Loan approved on condition that borrower provides proof of business registration before funding."

(* C9: past the gate, evaluation_module.evaluate_sme_risk returns
   CONDITIONAL_PASS with the explanation of the first unmet condition in the
   order PG, debenture, legal charge, due diligence, registration; only when
   none is unmet does it return the segment evaluator's outcome. *)
C9_FirstUnmetConditionDecides ==
    (/\ Done("evaluation_module.evaluate_sme_risk")
     /\ PassesGate
     /\ call.sme_profile \in {"EB", "ESB", "NTB", "SU"}) =>
        IF UnmetConditions # {}
        THEN /\ result.kind = "dict"
             /\ result.decision = "CONDITIONAL_PASS"
             /\ result.explanation.msg = ConditionExplanation(Min(UnmetConditions))
             /\ Min(UnmetConditions) = 1 =>
                   \E n \in 0..100 : /\ result.explanation.nums = <<n>>
                                     /\ 10 * n <= call.min_pg_required
                                     /\ call.min_pg_required < 10 * (n + 1)
        ELSE result = em_segment_evaluator(call.sme_profile, call.sme_profile, call.risk_profile,
                                           call.dscr, call.loan_amount, call.loan_type)

(* debenture, legal charge and registration unmet at once: the debenture explains *)
C9_Witness ==
    /\ Done("evaluation_module.evaluate_sme_risk")
    /\ PassesGate
    /\ call.sme_profile = "ESB"
    /\ UnmetConditions = {2, 3, 5}
    /\ result.explanation.msg = ConditionExplanation(2)

(* C10: in a segment table of evaluation_module.py, with tier, security type
   and an amount within the segment limits fixed, no dscr >= 1.25 lower than
   the request's gets a more favourable decision than the request's. *)
C10_DscrMonotone ==
    (/\ EmSegmentEvaluatorCall
     /\ call.sme_profile = call.evaluator
     /\ call.dscr >= 12500
     /\ call.loan_amount >= Limits(call.evaluator, call.loan_type).min
     /\ call.loan_amount <= Limits(call.evaluator, call.loan_type).max) =>
        \A lower \in DscrValues :
            (12500 <= lower /\ lower < call.dscr) =>
                Favourability(em_segment_evaluator(call.evaluator, call.sme_profile, call.risk_profile,
                                                   lower, call.loan_amount, call.loan_type).decision)
                  <= Favourability(result.decision)


----------------------------------------------------------------------------
(* C11: a second call of logic.evaluate_application or of
   evaluation_module.evaluate_sme_risk with the arguments of the first returns
   an outcome equal to the first in every field, and no call changes what a
   later call reads: the module-level REQUIRED_DOCUMENTS table keeps its
   initial value and the arguments (the provided_docs list among them) are as
   they were passed. *)
C11_SecondCallEqualsFirst ==
    /\ required_documents = REQUIRED_DOCUMENTS
    /\ (/\ previous # NoPrevious
        /\ call.fn \in {"logic.evaluate_application", "evaluation_module.evaluate_sme_risk"}) =>
          /\ call = previous.call
          /\ result = previous.result

(* logic.evaluate_application called twice on an application that
   finalize_conditional_pass turned into CONDITIONAL_PASS with missing documents *)
C11_Witness ==
    /\ pc = "done"
    /\ previous # NoPrevious
    /\ call.fn = "logic.evaluate_application"
    /\ result.decision = "CONDITIONAL_PASS"
    /\ result.missing_documents # {}
    /\ call.provided_docs # {}

----------------------------------------------------------------------------
(* Vocabulary of the narrative-loop properties *)

IsGenerate(c) == c.fn = "generate_underwriter_narrative"

IsCheck(c) == c.fn = "check_underwriter_narrative"

(* the verifier replies in which the words No contradictions found occur *)
AcceptingReplies ==
    {<<"No", "contradictions", "found", ".">>,
     <<"Review", "complete", ":", "No", "contradictions", "found", "in", "the", "narrative">>}

Accepts(c) == IsCheck(c) /\ c.reply.ok /\ c.reply.text \in AcceptingReplies

GenerateCalls == {i \in DOMAIN gpt_calls : IsGenerate(gpt_calls[i])}

CheckCalls == {i \in DOMAIN gpt_calls : IsCheck(gpt_calls[i])}

SuccessfulGenerations == {i \in GenerateCalls : gpt_calls[i].reply.ok}

Max(S) == CHOOSE x \in S : \A y \in S : x >= y

(* C12: when every generation call succeeded and the verifier's reply
   contains "No contradictions found" for the first time at attempt k, that
   reply is the last collaborator call, the loop has returned exactly the
   narrative generated at attempt k, and k generator calls and k verifier
   calls were made (k = 3 after two discrepancy replies). *)
C12_AcceptedAtAttemptKReturnsKthNarrative ==
    \A i \in DOMAIN gpt_calls :
        (Accepts(gpt_calls[i]) /\ SuccessfulGenerations = GenerateCalls) =>
            LET k == gpt_calls[i].attempt
            IN  /\ k \in 1 .. 3
                /\ i = Len(gpt_calls)
                /\ \A j \in 1 .. (i - 1) : ~Accepts(gpt_calls[j])
                /\ Cardinality(GenerateCalls) = k
                /\ Cardinality(CheckCalls) = k
                /\ lpc = "returned"
                /\ IsGenerate(gpt_calls[i - 1]) /\ gpt_calls[i - 1].attempt = k
                /\ loop_result = Returned(gpt_calls[i - 1].reply.text)

(* two discrepancy replies, then an acceptance that does not start with the
   phrase; the third narrative differs from the second and is the one returned *)
C12_Witness ==
    /\ lpc = "returned"
    /\ Len(gpt_calls) = 6
    /\ \A i \in {2, 4} : gpt_calls[i].reply.ok /\ ~Accepts(gpt_calls[i])
    /\ Accepts(gpt_calls[6])
    /\ gpt_calls[6].reply.text[1] = "Review"
    /\ gpt_calls[5].reply.ok /\ gpt_calls[3].reply.ok /\ gpt_calls[1].reply.ok
    /\ gpt_calls[5].reply.text # gpt_calls[3].reply.text
    /\ loop_result = Returned(gpt_calls[5].reply.text)

(* C13: the loop ends after at most 3 attempts whatever the collaborators
   reply: every started call returns or raises; at most 3 generator and 3
   verifier calls are made, at most one of each per attempt; a failed call is
   the last call of its attempt (the next call belongs to the next attempt);
   and every verifier call directly follows the successful generation of the
   same attempt and is given that generation's narrative. *)
C13_TerminatesWithinThreeAttempts ==
    /\ [](/\ attempt <= 3
          /\ Cardinality(GenerateCalls) <= 3
          /\ Cardinality(CheckCalls) <= 3
          /\ \A i \in DOMAIN gpt_calls :
                /\ gpt_calls[i].attempt \in 1 .. 3
                /\ \A j \in DOMAIN gpt_calls :
                      (i < j /\ gpt_calls[i].fn = gpt_calls[j].fn) => gpt_calls[i].attempt < gpt_calls[j].attempt
                /\ (~gpt_calls[i].reply.ok /\ i < Len(gpt_calls)) =>
                      /\ gpt_calls[i + 1].attempt = gpt_calls[i].attempt + 1
                      /\ IsGenerate(gpt_calls[i + 1])
                /\ IsCheck(gpt_calls[i]) =>
                      /\ i > 1
                      /\ IsGenerate(gpt_calls[i - 1])
                      /\ gpt_calls[i - 1].reply.ok
                      /\ gpt_calls[i - 1].attempt = gpt_calls[i].attempt
                      /\ gpt_calls[i].narrative = gpt_calls[i - 1].reply.text)
    /\ (lpc = "generate") ~> (lpc = "returned")

(* three attempts used up by a failed generation, a failed verification and a
   discrepancy reply *)
C13_Witness ==
    /\ lpc = "returned"
    /\ attempt = 3
    /\ Len(gpt_calls) = 5
    /\ \E i \in GenerateCalls : ~gpt_calls[i].reply.ok
    /\ \E i \in CheckCalls : ~gpt_calls[i].reply.ok
    /\ \E i \in CheckCalls : gpt_calls[i].reply.ok

(* C14: when the 3 attempts are used up without an acceptance and at least
   one generation succeeded, the loop returns (does not raise) the narrative
   of the most recent successful generator call, whether the verifier flagged
   it or the verification of it failed. *)
C14_ExhaustionReturnsLastGeneratedNarrative ==
    (/\ lpc = "returned"
     /\ attempt = 3
     /\ SuccessfulGenerations # {}) =>
        loop_result = Returned(gpt_calls[Max(SuccessfulGenerations)].reply.text)

(* the last successful generation is not the first one and its verification
   failed or flagged it; a later generation failed *)
C14_Witness ==
    /\ lpc = "returned"
    /\ attempt = 3
    /\ Cardinality(SuccessfulGenerations) = 2
    /\ ~gpt_calls[Len(gpt_calls)].reply.ok
    /\ IsGenerate(gpt_calls[Len(gpt_calls)])
    /\ gpt_calls[Max(SuccessfulGenerations)].reply.text
          # gpt_calls[Min(SuccessfulGenerations)].reply.text
    /\ loop_result = Returned(gpt_calls[Max(SuccessfulGenerations)].reply.text)

(* C15: whatever calls of call_gpt fail, generate_and_verify_narrative
   returns a value and never raises, and the decision passed to it is
   unchanged (decisions that carry the keys the prompts read). *)
C15_NarrativeLoopNeverRaises ==
    /\ evaluation_decision = loop_call.evaluation_decision
    /\ (lpc = "returned" /\ PromptError(loop_call.evaluation_decision) = "") =>
          loop_result.kind = "return"


----------------------------------------------------------------------------
(* the request leaves no supplementary condition of the chain unmet *)
AllConditionsSatisfied == UnmetConditions = {}

(* C16: evaluation_module.evaluate_sme_risk answers an Established, secured,
   tier T2 application with dscr >= 1.50, an amount from 25001 to 250000 and
   every supplementary condition satisfied with PASS, confidence 0.89 and the
   explanation of the 'DSCR >150%' secured rule. *)
C16_EstablishedSecuredT2Passes ==
    (/\ Done("evaluation_module.evaluate_sme_risk")
     /\ call.sme_profile = "EB" /\ call.loan_type = "secured" /\ call.risk_profile = "T2"
     /\ call.dscr >= 15000
     /\ call.loan_amount >= 25001 /\ call.loan_amount <= 250000
     /\ AllConditionsSatisfied) =>
        /\ result.kind = "dict"
        /\ result.decision = "PASS"
        /\ result.confidence = 89
        /\ result.explanation = Lit("EB/T2 with DSCR >150% qualifies for a secured loan.")

(* the documented instance: dscr = 1.55, amount = 200000 *)
C16_Witness ==
    /\ Done("evaluation_module.evaluate_sme_risk")
    /\ call.sme_profile = "EB" /\ call.loan_type = "secured" /\ call.risk_profile = "T2"
    /\ call.dscr = 15500 /\ call.loan_amount = 200000
    /\ AllConditionsSatisfied
    /\ result.decision = "PASS" /\ result.confidence = 89

(* C17: evaluation_module.evaluate_sme_risk answers an Early-Stage,
   unsecured, tier T3 application with 1.25 < dscr < 1.35, an amount from
   25001 to 40000 and every supplementary condition satisfied with FLAG/AI,
   from the rule of the 125-135% DSCR band. *)
C17_EarlyStageUnsecuredT3FlagsAI ==
    (/\ Done("evaluation_module.evaluate_sme_risk")
     /\ call.sme_profile = "ESB" /\ call.loan_type = "unsecured" /\ call.risk_profile = "T3"
     /\ call.dscr > 12500 /\ call.dscr < 13500
     /\ call.loan_amount >= 25001 /\ call.loan_amount <= 40000
     /\ AllConditionsSatisfied) =>
        /\ result.kind = "dict"
        /\ result.decision = config_DECISIONS["FLAG_AI"]
        /\ result.explanation = Lit("ESB/T3 with DSCR >125% and <135%: AI review required (unsecured).")

(* C17 as the rule priority makes it: the application is answered with
   FLAG/AI, confidence 0.70, by the first matching band rule -- the 125-135%
   rule for 1.25 < dscr <= 1.349, and the earlier (1.349, 1.50] rule, worded
   "between 135%-150%", for 1.349 < dscr < 1.35. *)
C17_EarlyStageUnsecuredT3FlagsAIByFirstMatchingBand ==
    (/\ Done("evaluation_module.evaluate_sme_risk")
     /\ call.sme_profile = "ESB" /\ call.loan_type = "unsecured" /\ call.risk_profile = "T3"
     /\ call.dscr > 12500 /\ call.dscr < 13500
     /\ call.loan_amount >= 25001 /\ call.loan_amount <= 40000
     /\ AllConditionsSatisfied) =>
        /\ result.kind = "dict"
        /\ result.decision = config_DECISIONS["FLAG_AI"]
        /\ result.confidence = 70
        /\ result.explanation =
              IF call.dscr <= 13490
              THEN Lit("ESB/T3 with DSCR >125% and <135%: AI review required (unsecured).")
              ELSE Lit("ESB/T3 with DSCR between 135%-150%: AI review required (unsecured).")

(* the documented instance: dscr = 1.30, amount = 35000 *)
C17_Witness ==
    /\ Done("evaluation_module.evaluate_sme_risk")
    /\ call.sme_profile = "ESB" /\ call.loan_type = "unsecured" /\ call.risk_profile = "T3"
    /\ call.dscr = 13000 /\ call.loan_amount = 35000
    /\ AllConditionsSatisfied
    /\ result.decision = "FLAG/AI"

(* C18: for an overall risk r from 1.0 to 2.0 config.determine_pg_percentage
   returns 0.20 + (r - 1.0) * 0.80: 0.20 at 1.0, 0.60 at 1.5, 1.00 at 2.0
   (exact arithmetic, values scaled by 10000). *)
C18_PgInterpolatesLinearly ==
    (/\ Done("config.determine_pg_percentage")
     /\ call.overall_risk >= 10000 /\ call.overall_risk <= 20000) =>
        /\ result.kind = "float"
        /\ 10 * (result.value - 2000) = (call.overall_risk - 10000) * 8
        /\ call.overall_risk = 10000 => result.value = 2000
        /\ call.overall_risk = 15000 => result.value = 6000
        /\ call.overall_risk = 20000 => result.value = 10000

(* the midpoint: overall risk 1.5 gives 0.60 *)
C18_Witness ==
    /\ Done("config.determine_pg_percentage")
    /\ call.overall_risk = 15000
    /\ result.value = 6000

(* C19: config.determine_pg_percentage returns a value from 0.20 to 1.00 for
   every overall risk: 0.20 below risk 1.0 and 1.00 above risk 2.0, also for
   the scores calculate_overall_risk produces. *)
C19_PgClampedToCalibrationRange ==
    Done("config.determine_pg_percentage") =>
        /\ result.value >= 2000 /\ result.value <= 10000
        /\ call.overall_risk < 10000 => result.value = 2000
        /\ call.overall_risk > 20000 => result.value = 10000

(* C20: config.calculate_overall_risk returns 0.32*segmentScore +
   0.32*dscrScore + 0.32*tierScore + 0.04*industryScore with industry score
   1.0 for every sector of ACCEPTABLE_INDUSTRY_SECTORS and 2.0 for a sector
   outside the list. *)
C20_AcceptableSectorsScoreOne ==
    Done("config.calculate_overall_risk") =>
        LET segmentScore  == Get(SME_RISK_SCORES, call.sme_profile, 20)
            dscrScore     == Get(DSCR_RISK_SCORES, call.dscr_level, 20)
            tierScore     == Get(CREDIT_RISK_SCORES, call.risk_profile, 20)
            industryScore == IF call.industry_sector \in ACCEPTABLE_INDUSTRY_SECTORS THEN 10 ELSE 20
        IN  result.value = 320 * segmentScore + 320 * dscrScore + 320 * tierScore + 40 * industryScore


----------------------------------------------------------------------------
(* the documents required of a segment as the claim states them: the
   segment-specific entries and the common entries whose name no
   segment-specific entry carries *)
RequiredOf(sme_profile) ==
    LET specific == IF sme_profile \in DOMAIN REQUIRED_DOCUMENTS \ {"common"}
                    THEN REQUIRED_DOCUMENTS[sme_profile] ELSE {}
    IN  specific \cup {e \in REQUIRED_DOCUMENTS["common"] : \A o \in specific : o[1] # e[1]}

(* C21: the missing_documents that logic.finalize_conditional_pass attaches
   (called directly or by evaluate_application) are exactly the required
   documents of the segment -- common merged with segment-specific -- that
   are not in provided_docs, each with its description. *)
C21_MissingDocumentsAreRequiredMinusProvided ==
    (\/ Done("logic.finalize_conditional_pass")
     \/ Done("logic.evaluate_application") /\ "missing_documents" \in result.keys) =>
        /\ "missing_documents" \in result.keys
        /\ result.missing_documents =
              {e \in RequiredOf(call.sme_profile) : e[1] \notin call.provided_docs}

(* an Early-Stage request that provides one required and one unlisted
   document: nine documents are missing, the ESB Financial Statements among them *)
C21_Witness ==
    /\ Done("logic.finalize_conditional_pass")
    /\ call.sme_profile = "ESB"
    /\ call.provided_docs = {"Bank Statements", "Unlisted Document"}
    /\ Cardinality(result.missing_documents) = 9
    /\ <<"Financial Statements", "1 year of historical accounts">> \in result.missing_documents
    /\ \A e \in result.missing_documents : e[1] # "Bank Statements"


----------------------------------------------------------------------------
(* C22: a segment evaluator of evaluation_module.py or logic.py called with a
   sme_profile other than its own segment raises EvaluationError and returns
   no outcome, whatever the tier, DSCR, amount and loan type are (also for a
   DSCR below 1.25 and an amount outside the limits). *)
C22_WrongSegmentRaisesEvaluationError ==
    ((EmSegmentEvaluatorCall \/ LogicSegmentEvaluatorCall) /\ call.sme_profile # call.evaluator) =>
        result = Raise("EvaluationError")

(* the Startup evaluator given an Established profile with a DSCR and an
   amount that every later check would reject *)
C22_Witness ==
    /\ EmSegmentEvaluatorCall
    /\ call.evaluator = "SU" /\ call.sme_profile = "EB"
    /\ call.dscr < 12500 /\ call.loan_amount = 24999
    /\ result.kind = "raise" /\ result.error = "EvaluationError"

(* the hard-stop explanations of the evaluator of a segment *)
HardStopMessages(segment) ==
    {"Loan amount {loan_amount} is below the minimum allowed limit of {min_limit} for " \o segment \o " {loan_type} loans.",
     "Loan amount {loan_amount} exceeds the maximum allowed limit of {max_limit} for " \o segment \o " {loan_type} loans.",
     "DSCR of {dscr} is below the minimum allowed DSCR of {MIN_DSCR}. Loan declined."}

OutsideLimits ==
    LET limits == IF call.loan_type = "secured" THEN SME_PROFILES[call.evaluator].loan_secured
                  ELSE SME_PROFILES[call.evaluator].loan_unsecured
    IN  call.loan_amount < limits.min \/ call.loan_amount > limits.max

(* C23: a segment evaluator (evaluation_module.py, logic.py) called for its
   own segment with a loan amount below the segment/security minimum or above
   the segment/security maximum of SME_PROFILES returns FAIL with a hard-stop
   explanation for every tier and DSCR: no rule of the table decides. *)
C23_AmountOutsideLimitsIsHardStop ==
    ((EmSegmentEvaluatorCall \/ LogicSegmentEvaluatorCall)
        /\ call.sme_profile = call.evaluator /\ OutsideLimits) =>
        /\ result.kind = "dict"
        /\ result.decision = "FAIL"
        /\ result.confidence = 99
        /\ result.explanation.msg \in HardStopMessages(call.evaluator)

(* an unsecured Established request above the unsecured maximum and within
   the secured one, with the tier and DSCR of a PASS rule *)
C23_Witness ==
    /\ EmSegmentEvaluatorCall
    /\ call.evaluator = "EB" /\ call.sme_profile = "EB"
    /\ call.loan_type = "unsecured" /\ call.loan_amount = 200000
    /\ call.risk_profile = "T2" /\ call.dscr = 15500
    /\ result.decision = "FAIL"

(* C25: logic.finalize_conditional_pass leaves the outcome it is given as it
   was -- decision, explanation and keys -- and a second application to the
   same outcome object returns what the first returned. *)
C25_FinalizeLeavesInputOutcomeUnchanged ==
    Done("logic.finalize_conditional_pass") =>
        /\ decision_dict.decision = call.decision.decision
        /\ decision_dict.explanation = call.decision.explanation
        /\ decision_dict.keys = call.decision.keys
        /\ previous # NoPrevious => result = previous.result

(* C24: in each segment rule table of evaluation_module.py, for a fixed tier
   every dscr > 1.25 satisfies the DSCR predicate of exactly one band (no gap,
   no overlap), and a request within the smallest amount ceiling is therefore
   decided by a rule, not by the no-match fallback. *)
C24_DscrBandsPartitionAboveGate ==
    (/\ EmSegmentEvaluatorCall
     /\ call.sme_profile = call.evaluator
     /\ call.dscr > 12500) =>
        /\ Cardinality({band \in em_dscr_bands(call.evaluator, call.risk_profile) :
                           InBand(band, call.dscr)}) = 1
        /\ (~OutsideLimits /\ call.loan_amount <= 40000) =>
               result.explanation # em_fallback_explanation

(* the confidence the documented algorithm gives, in hundredths *)
DocumentedConfidence(base, requested, min_loan, max_loan, risk_profile, dscr_level) ==
    LET span      == IF max_loan = min_loan THEN 1 ELSE max_loan - min_loan
        reduction == ((requested - min_loan) * 10) \div span
        floored   == IF base - reduction < 50 THEN 50 ELSE base - reduction
        tierDelta == CASE risk_profile = "T1" -> 10 [] risk_profile = "T3" -> -15 [] OTHER -> 0
        dscrDelta == CASE dscr_level = "high" -> 10 [] dscr_level = "low" -> -15 [] OTHER -> 0
        total     == floored + tierDelta + dscrDelta
    IN  IF total > 100 THEN 100 ELSE IF total < 50 THEN 50 ELSE total

(* C26: adjust_confidence returns the documented value computed from the
   segment's base confidence of the profile registry, and
   config.adjust_confidence returns what evaluation_module.adjust_confidence
   returns for that base and the same request, limits, tier and DSCR level. *)
C26_AdjustConfidenceImplementationsAgree ==
    /\ Done("evaluation_module.adjust_confidence") =>
          result.value = DocumentedConfidence(call.base_confidence, call.loan_amount, call.min_loan,
                                              call.max_loan, call.risk_profile, call.dscr_level)
    /\ (Done("config.adjust_confidence") /\ call.sme_profile \in DOMAIN SME_PROFILES) =>
          /\ result.value = DocumentedConfidence(SME_PROFILES[call.sme_profile].confidence,
                                                 call.loan_amount, call.min_loan, call.max_loan,
                                                 call.risk_profile, call.dscr_level)
          /\ result.value = em_adjust_confidence(SME_PROFILES[call.sme_profile].confidence,
                                                 call.loan_amount, call.min_loan, call.max_loan,
                                                 call.risk_profile, call.dscr_level)

(* C27: main.global_sme_checks returns what
   evaluation_module.global_sme_checks returns for the same DSCR and amount
   (DSCR read as a ratio, 1.25 = 125%), so main.evaluate_sme_risk does not
   return the gate's FAIL for a request with dscr >= 1.25 and amount >= 25001. *)
C27_MainGateReadsDscrAsRatio ==
    Done("main.evaluate_sme_risk") =>
        /\ main_global_sme_checks(call.dscr, call.loan_amount)
               = em_global_sme_checks(call.dscr, call.loan_amount)
        /\ PassesGate => result # Dict("FAIL", 99, Lit("DSCR <125%. Loan declined."))

(* C28: in evaluation_module.evaluate_sme_risk a request that passes the
   global gate, leaves a supplementary condition unmet and asks for more than
   the segment/security maximum is returned CONDITIONAL_PASS with the
   explanation of the first unmet condition, not the evaluator's hard-stop
   FAIL. *)
C28_UnmetConditionPrecedesAmountLimit ==
    (/\ Done("evaluation_module.evaluate_sme_risk")
     /\ PassesGate
     /\ call.sme_profile \in DOMAIN SME_PROFILES
     /\ UnmetConditions # {}
     /\ call.loan_amount > (IF call.loan_type = "secured"
                            THEN SME_PROFILES[call.sme_profile].loan_secured.max
                            ELSE SME_PROFILES[call.sme_profile].loan_unsecured.max)) =>
        /\ result.kind = "dict"
        /\ result.decision = "CONDITIONAL_PASS"
        /\ result.explanation.msg = ConditionExplanation(Min(UnmetConditions))

(* an Established secured request of 300000 (maximum 250000) whose only unmet
   condition is the business registration *)
C28_Witness ==
    /\ Done("evaluation_module.evaluate_sme_risk")
    /\ PassesGate
    /\ call.sme_profile = "EB" /\ call.loan_type = "secured" /\ call.loan_amount = 300000
    /\ UnmetConditions = {5}
    /\ result.decision = "CONDITIONAL_PASS"
    /\ result.explanation.msg = ConditionExplanation(5)

(* C29: when logic.evaluate_application returns an outcome its decision is
   FAIL or CONDITIONAL_PASS, never PASS, FLAG/AI, FLAG/UW or PROGRESS; a
   request that is not failed and provides every required document receives
   CONDITIONAL_PASS with an empty missing_documents. *)
C29_ApplicationReturnsFailOrConditionalPass ==
    (Done("logic.evaluate_application") /\ result.kind = "dict") =>
        /\ result.decision \in {"FAIL", "CONDITIONAL_PASS"}
        /\ (result.decision # "FAIL" /\ AllRequiredDocuments \subseteq call.provided_docs) =>
              /\ result.decision = "CONDITIONAL_PASS"
              /\ "missing_documents" \in result.keys
              /\ result.missing_documents = {}

(* an Established request that the table lets progress, with every required
   document provided *)
C29_Witness ==
    /\ Done("logic.evaluate_application")
    /\ call.sme_profile = "EB"
    /\ call.provided_docs = AllRequiredDocuments
    /\ result.decision = "CONDITIONAL_PASS"
    /\ "missing_documents" \in result.keys
    /\ result.missing_documents = {}

(* C30: every outcome of logic.evaluate_application that carries required_pg
   belongs to an Established, Early-Stage or Newly-Trading request and has
   overall_risk in [1.0, 2.0] and required_pg in [0.20, 1.00]. *)
C30_AttachedRiskAndPgWithinRange ==
    (Done("logic.evaluate_application") /\ result.kind = "dict" /\ "required_pg" \in result.keys) =>
        /\ call.sme_profile \in {"EB", "ESB", "NTB"}
        /\ "overall_risk" \in result.keys
        /\ 10000 <= result.overall_risk /\ result.overall_risk <= 20000
        /\ 2000 <= result.required_pg /\ result.required_pg <= 10000

(* a Newly-Trading T3 request with a low DSCR in a sector without a score:
   every factor scores 2.0, the top of the range *)
C30_Witness ==
    /\ Done("logic.evaluate_application")
    /\ call.sme_profile = "NTB" /\ call.risk_profile = "T3"
    /\ call.dscr >= 12500 /\ call.dscr < 13500
    /\ call.industry_sector \notin INDUSTRY_RISK_SCORES
    /\ "required_pg" \in result.keys
    /\ result.overall_risk = 20000
    /\ result.required_pg = 10000


====
